---- MODULE Spec2Model ----
(***************************************************************************)
(* A model of the media-type core of hyperium/mime: the RFC 7231 scanner   *)
(* (mime-parse/src/rfc7231.rs), the atom table (mime-parse/src/            *)
(* constants.rs), the accessors (mime-parse/src/lib.rs) and the equality   *)
(* relation (src/cmp.rs, src/value.rs).                                    *)
(*                                                                         *)
(* A string is a sequence of bytes (0..255).  Offsets are the code's       *)
(* 0-based byte offsets; Slice(s, a, b) is the code's &s[a..b].            *)
(***************************************************************************)
EXTENDS Integers, Sequences, FiniteSets, TLC

\* std::u16::MAX, the widest offset a Mime can store.
U16_MAX ==
    65535

\* ---- bytes the scanner matches on ----
B_TAB ==
    9
B_SPACE ==
    32
B_QUOTE ==
    34
B_STAR ==
    42
B_PLUS ==
    43
B_SLASH ==
    47
B_SEMI ==
    59
B_EQ ==
    61
B_BACKSLASH ==
    92
B_DEL ==
    127

\* The element of a one-element set; used to bind the value of an expression
\* to a name once.
Only(S) ==
    CHOOSE x \in S : TRUE

\* ---- string primitives of the standard library, as the code uses them ----
Slice(s, a, b) ==
    SubSeq(s, a + 1, b)

ascii_lower(c) ==
    IF c >= 65 /\ c <= 90 THEN c + 32 ELSE c

to_ascii_lowercase(s) ==
    [k \in 1..Len(s) |-> ascii_lower(s[k])]

eq_ignore_ascii_case(a, b) ==
    /\ Len(a) = Len(b)
    /\ \A k \in 1..Len(a) : ascii_lower(a[k]) = ascii_lower(b[k])

\* owned[a..b].make_ascii_lowercase()
make_ascii_lowercase(s, a, b) ==
    IF a >= b THEN s
    ELSE SubSeq(s, 1, a) \o [k \in 1..(b - a) |-> ascii_lower(s[a + k])]
                          \o SubSeq(s, b + 1, Len(s))

\* Variant: offsets are kept in 15 bits.
as_u16_in_15_bits(i) ==
    i % 32768

\* fn as_u16(i: usize) -> u16 { i as u16 }
as_u16(i) ==
    i % (U16_MAX + 1)

range(index) ==
    [lo |-> index[1], hi |-> index[2]]

\* ---- names! (mime-parse/src/constants.rs): the string literals the atom table compares against ----
TEXT ==
    <<116,101,120,116>>  \* "text"
IMAGE ==
    <<105,109,97,103,101>>  \* "image"
AUDIO ==
    <<97,117,100,105,111>>  \* "audio"
VIDEO ==
    <<118,105,100,101,111>>  \* "video"
APPLICATION ==
    <<97,112,112,108,105,99,97,116,105,111,110>>  \* "application"
FONT ==
    <<102,111,110,116>>  \* "font"
PLAIN ==
    <<112,108,97,105,110>>  \* "plain"
HTML ==
    <<104,116,109,108>>  \* "html"
XML ==
    <<120,109,108>>  \* "xml"
JAVASCRIPT ==
    <<106,97,118,97,115,99,114,105,112,116>>  \* "javascript"
CSS ==
    <<99,115,115>>  \* "css"
CSV ==
    <<99,115,118>>  \* "csv"
EVENT_STREAM ==
    <<101,118,101,110,116,45,115,116,114,101,97,109>>  \* "event-stream"
VCARD ==
    <<118,99,97,114,100>>  \* "vcard"
TAB_SEPARATED_VALUES ==
    <<116,97,98,45,115,101,112,97,114,97,116,101,100,45,118,97,108,117,101,115>>  \* "tab-separated-values"
JSON ==
    <<106,115,111,110>>  \* "json"
WWW_FORM_URLENCODED ==
    <<120,45,119,119,119,45,102,111,114,109,45,117,114,108,101,110,99,111,100,101,100>>  \* "x-www-form-urlencoded"
MSGPACK ==
    <<109,115,103,112,97,99,107>>  \* "msgpack"
OCTET_STREAM ==
    <<111,99,116,101,116,45,115,116,114,101,97,109>>  \* "octet-stream"
PDF ==
    <<112,100,102>>  \* "pdf"
WOFF ==
    <<119,111,102,102>>  \* "woff"
WOFF2 ==
    <<119,111,102,102,50>>  \* "woff2"
BMP ==
    <<98,109,112>>  \* "bmp"
GIF ==
    <<103,105,102>>  \* "gif"
JPEG ==
    <<106,112,101,103>>  \* "jpeg"
PNG ==
    <<112,110,103>>  \* "png"
SVG ==
    <<115,118,103,43,120,109,108>>  \* "svg+xml"
CHARSET ==
    <<99,104,97,114,115,101,116>>  \* "charset"

DNS_MESSAGE ==
    <<100,110,115,45,109,101,115,115,97,103,101>>  \* "dns-message"
UTF_8 ==
    <<117,116,102,45,56>>  \* "utf-8"

\* ---- mimes! : the ordinal of each entry of enum __Atoms (0 is __Dynamic) ----
TEXT_PLAIN ==
    1
TEXT_PLAIN_UTF_8 ==
    2
TEXT_HTML ==
    3
TEXT_HTML_UTF_8 ==
    4
TEXT_CSS ==
    5
TEXT_CSS_UTF_8 ==
    6
TEXT_JAVASCRIPT ==
    7
TEXT_XML ==
    8
TEXT_EVENT_STREAM ==
    9
TEXT_CSV ==
    10
TEXT_CSV_UTF_8 ==
    11
TEXT_TAB_SEPARATED_VALUES ==
    12
TEXT_TAB_SEPARATED_VALUES_UTF_8 ==
    13
TEXT_VCARD ==
    14
IMAGE_JPEG ==
    15
IMAGE_GIF ==
    16
IMAGE_PNG ==
    17
IMAGE_BMP ==
    18
IMAGE_SVG ==
    19
FONT_WOFF ==
    20
FONT_WOFF2 ==
    21
APPLICATION_JSON ==
    22
APPLICATION_JAVASCRIPT ==
    23
APPLICATION_JAVASCRIPT_UTF_8 ==
    24
APPLICATION_WWW_FORM_URLENCODED ==
    25
APPLICATION_OCTET_STREAM ==
    26
APPLICATION_MSGPACK ==
    27
APPLICATION_PDF ==
    28
APPLICATION_DNS ==
    29
STAR_STAR ==
    30
TEXT_STAR ==
    31
IMAGE_STAR ==
    32
VIDEO_STAR ==
    33
AUDIO_STAR ==
    34

\* The static string of each atom, indexed by its ordinal.
AtomSrc ==
    << <<116,101,120,116,47,112,108,97,105,110>>,
       <<116,101,120,116,47,112,108,97,105,110,59,32,99,104,97,114,115,101,116,61,117,116,102,45,56>>,
       <<116,101,120,116,47,104,116,109,108>>,
       <<116,101,120,116,47,104,116,109,108,59,32,99,104,97,114,115,101,116,61,117,116,102,45,56>>,
       <<116,101,120,116,47,99,115,115>>,
       <<116,101,120,116,47,99,115,115,59,32,99,104,97,114,115,101,116,61,117,116,102,45,56>>,
       <<116,101,120,116,47,106,97,118,97,115,99,114,105,112,116>>,
       <<116,101,120,116,47,120,109,108>>,
       <<116,101,120,116,47,101,118,101,110,116,45,115,116,114,101,97,109>>,
       <<116,101,120,116,47,99,115,118>>,
       <<116,101,120,116,47,99,115,118,59,32,99,104,97,114,115,101,116,61,117,116,102,45,56>>,
       <<116,101,120,116,47,116,97,98,45,115,101,112,97,114,97,116,101,100,45,118,97,108,117,101,115>>,
       <<116,101,120,116,47,116,97,98,45,115,101,112,97,114,97,116,101,100,45,118,97,108,117,101,115,59,32,99,104,97,114,115,101,116,61,117,116,102,45,56>>,
       <<116,101,120,116,47,118,99,97,114,100>>,
       <<105,109,97,103,101,47,106,112,101,103>>,
       <<105,109,97,103,101,47,103,105,102>>,
       <<105,109,97,103,101,47,112,110,103>>,
       <<105,109,97,103,101,47,98,109,112>>,
       <<105,109,97,103,101,47,115,118,103,43,120,109,108>>,
       <<102,111,110,116,47,119,111,102,102>>,
       <<102,111,110,116,47,119,111,102,102,50>>,
       <<97,112,112,108,105,99,97,116,105,111,110,47,106,115,111,110>>,
       <<97,112,112,108,105,99,97,116,105,111,110,47,106,97,118,97,115,99,114,105,112,116>>,
       <<97,112,112,108,105,99,97,116,105,111,110,47,106,97,118,97,115,99,114,105,112,116,59,32,99,104,97,114,115,101,116,61,117,116,102,45,56>>,
       <<97,112,112,108,105,99,97,116,105,111,110,47,120,45,119,119,119,45,102,111,114,109,45,117,114,108,101,110,99,111,100,101,100>>,
       <<97,112,112,108,105,99,97,116,105,111,110,47,111,99,116,101,116,45,115,116,114,101,97,109>>,
       <<97,112,112,108,105,99,97,116,105,111,110,47,109,115,103,112,97,99,107>>,
       <<97,112,112,108,105,99,97,116,105,111,110,47,112,100,102>>,
       <<97,112,112,108,105,99,97,116,105,111,110,47,100,110,115,45,109,101,115,115,97,103,101>>,
       <<42,47,42>>,
       <<116,101,120,116,47,42>>,
       <<105,109,97,103,101,47,42>>,
       <<118,105,100,101,111,47,42>>,
       <<97,117,100,105,111,47,42>> >>

\* ---- Source, ParamSource, Mime (mime-parse/src/lib.rs) ----
Atom(id) ==
    [atom |-> id, str |-> AtomSrc[id]]

Dynamic(s) ==
    [atom |-> 0, str |-> s]

\* Option<u16>: None is <<>>, Some(i) is <<i>>.
ParamSource_None ==
    [kind |-> "None", pos |-> <<>>, pairs |-> <<>>]

ParamSource_Utf8(p) ==
    [kind |-> "Utf8", pos |-> <<p>>, pairs |-> <<>>]

ParamSource_One(p, a) ==
    [kind |-> "One", pos |-> <<p>>, pairs |-> <<a>>]

ParamSource_Two(p, a, b) ==
    [kind |-> "Two", pos |-> <<p>>, pairs |-> <<a, b>>]

ParamSource_Custom(p, v) ==
    [kind |-> "Custom", pos |-> <<p>>, pairs |-> v]

Ok(source, slash, plus, params) ==
    [ok |-> TRUE, err |-> "", pos |-> 0, byte |-> 0,
     source |-> source, slash |-> slash, plus |-> plus, params |-> params]

Err(e, pos, byte) ==
    [ok |-> FALSE, err |-> e, pos |-> pos, byte |-> byte,
     source |-> Dynamic(<<>>), slash |-> 0, plus |-> <<>>, params |-> ParamSource_None]

\* pub const STAR_STAR: Mime
STAR_STAR_MIME ==
    Ok(Atom(STAR_STAR), 1, <<>>, ParamSource_None)

\* ---- Atoms::intern (mime-parse/src/constants.rs) ----
\* Variant: the fallback keeps the caller's bytes instead of lower-casing them.
dynamic_keeps_case(s) ==
    Dynamic(s)

dynamic(s) ==
    Dynamic(to_ascii_lowercase(s))

intern_charset_utf8(s, slash, semicolon) ==
    LET top == Slice(s, 0, slash)
        sub == Slice(s, slash + 1, semicolon)
    IN  IF top = TEXT /\ sub = PLAIN THEN Atom(TEXT_PLAIN_UTF_8)
        ELSE IF top = TEXT /\ sub = HTML THEN Atom(TEXT_HTML_UTF_8)
        ELSE IF top = TEXT /\ sub = CSS THEN Atom(TEXT_CSS_UTF_8)
        ELSE IF top = TEXT /\ sub = CSV THEN Atom(TEXT_CSV_UTF_8)
        ELSE IF top = TEXT /\ sub = TAB_SEPARATED_VALUES
            THEN Atom(TEXT_TAB_SEPARATED_VALUES_UTF_8)
        ELSE IF top = APPLICATION /\ sub = JAVASCRIPT
            THEN Atom(APPLICATION_JAVASCRIPT_UTF_8)
        ELSE dynamic(s)

intern_no_params(s, slash) ==
    LET top == Slice(s, 0, slash)
        sub == Slice(s, slash + 1, Len(s))
        n   == Len(sub)
    IN  IF slash = 4 /\ top = TEXT THEN
            IF n = 1 /\ sub[1] = B_STAR THEN Atom(TEXT_STAR)
            ELSE IF n = 3 /\ sub = CSS THEN Atom(TEXT_CSS)
            ELSE IF n = 3 /\ sub = XML THEN Atom(TEXT_XML)
            ELSE IF n = 3 /\ sub = CSV THEN Atom(TEXT_CSV)
            ELSE IF n = 4 /\ sub = HTML THEN Atom(TEXT_HTML)
            ELSE IF n = 5 /\ sub = PLAIN THEN Atom(TEXT_PLAIN)
            ELSE IF n = 5 /\ sub = VCARD THEN Atom(TEXT_VCARD)
            ELSE IF n = 10 /\ sub = JAVASCRIPT THEN Atom(TEXT_JAVASCRIPT)
            ELSE IF n = 12 /\ sub = EVENT_STREAM THEN Atom(TEXT_EVENT_STREAM)
            ELSE IF n = 20 /\ sub = TAB_SEPARATED_VALUES
                THEN Atom(TEXT_TAB_SEPARATED_VALUES)
            ELSE dynamic(s)
        ELSE IF slash = 4 /\ top = FONT THEN
            IF n = 4 /\ sub = WOFF THEN Atom(FONT_WOFF)
            ELSE IF n = 5 /\ sub = WOFF2 THEN Atom(FONT_WOFF2)
            ELSE dynamic(s)
        ELSE IF slash = 5 /\ top = IMAGE THEN
            IF n = 1 /\ sub[1] = B_STAR THEN Atom(IMAGE_STAR)
            ELSE IF n = 3 /\ sub = PNG THEN Atom(IMAGE_PNG)
            ELSE IF n = 3 /\ sub = GIF THEN Atom(IMAGE_GIF)
            ELSE IF n = 3 /\ sub = BMP THEN Atom(IMAGE_BMP)
            ELSE IF n = 4 /\ sub = JPEG THEN Atom(IMAGE_JPEG)
            ELSE IF n = 7 /\ sub = SVG THEN Atom(IMAGE_SVG)
            ELSE dynamic(s)
        ELSE IF slash = 5 /\ top = VIDEO THEN
            IF n = 1 /\ sub[1] = B_STAR THEN Atom(VIDEO_STAR) ELSE dynamic(s)
        ELSE IF slash = 5 /\ top = AUDIO THEN
            IF n = 1 /\ sub[1] = B_STAR THEN Atom(AUDIO_STAR) ELSE dynamic(s)
        ELSE IF slash = 11 /\ top = APPLICATION THEN
            IF n = 3 /\ sub = PDF THEN Atom(APPLICATION_PDF)
            ELSE IF n = 4 /\ sub = JSON THEN Atom(APPLICATION_JSON)
            ELSE IF n = 7 /\ sub = MSGPACK THEN Atom(APPLICATION_MSGPACK)
            ELSE IF n = 10 /\ sub = JAVASCRIPT THEN Atom(APPLICATION_JAVASCRIPT)
            ELSE IF n = 11 /\ sub = DNS_MESSAGE THEN Atom(APPLICATION_DNS)
            ELSE IF n = 12 /\ sub = OCTET_STREAM THEN Atom(APPLICATION_OCTET_STREAM)
            ELSE IF n = 21 /\ sub = WWW_FORM_URLENCODED
                THEN Atom(APPLICATION_WWW_FORM_URLENCODED)
            ELSE dynamic(s)
        ELSE dynamic(s)

\* InternParams::None is <<>>, InternParams::Utf8(semicolon) is <<semicolon>>.
\* Variant: the charset=utf-8 entries of the table are never looked up.
intern_without_utf8(s, slash, params) ==
    IF params = <<>> THEN intern_no_params(s, slash) ELSE dynamic(s)

intern(s, slash, params) ==
    IF params # <<>>
        THEN intern_charset_utf8(s, slash, params[1])
        ELSE intern_no_params(s, slash)

\* ---- lower_ascii_with_params (mime-parse/src/lib.rs) ----
\* Variant: parameter names are lower-cased, no parameter value is.
RECURSIVE lower_params_names_only(_, _, _)
lower_params_names_only(owned, params, k) ==
    IF k > Len(params) THEN owned
    ELSE lower_params_names_only(
             make_ascii_lowercase(owned, params[k][1][1], params[k][1][2]),
             params, k + 1)

RECURSIVE lower_params(_, _, _)
lower_params(owned, params, k) ==
    IF k > Len(params) THEN owned
    ELSE LET name  == params[k][1]
             value == params[k][2]
         IN  Only({ lower_params(
                        IF Slice(lowered, name[1], name[2]) = CHARSET
                            THEN make_ascii_lowercase(lowered, value[1], value[2])
                            ELSE lowered,
                        params, k + 1) :
                    lowered \in {make_ascii_lowercase(owned, name[1], name[2])} })

\* Variant: the whole string is lower-cased, parameter values included.
lower_ascii_whole(s, semi, params) ==
    to_ascii_lowercase(s)

lower_ascii_with_params(s, semi, params) ==
    lower_params(make_ascii_lowercase(s, 0, semi), params, 1)

\* ---- the scanner (mime-parse/src/rfc7231.rs) ----
\* Variant: the table holds 1 for `*` as well.
TOKEN_MAP_with_star ==
    {33} \cup (35..39) \cup {42, 43, 45, 46} \cup (48..57) \cup (65..90)
         \cup (94..122) \cup {124, 126}

\* TOKEN_MAP: the bytes for which the table holds 1.
TOKEN_MAP ==
    {33} \cup (35..39) \cup {43, 45, 46} \cup (48..57) \cup (65..90)
         \cup (94..122) \cup {124, 126}

is_token(c) ==
    c \in TOKEN_MAP

is_restricted_quoted_char(c) ==
    c = B_TAB \/ (c > 31 /\ c # B_DEL)

\* The scanner's locals.  i is the index the byte iterator yields next; phase
\* names the loop the scanner is in:
\*   "top"    the toplevel loop            "sub"    the sublevel loop
\*   "name"   the 'name loop               "value"  'value, not quoted
\*   "quoted" 'value, is_quoted            "pair"   'value, is_quoted_pair
\*   "eof"    parse returned at the end of the sublevel
\*   "done"   params_from_str returned Ok  "err"    a ParseError was returned
ScanStart ==
    [phase |-> "top", i |-> 0, start |-> 0, slash |-> 0, plus |-> <<>>,
     params_start |-> 0, name |-> <<0, 0>>, params |-> ParamSource_None,
     err |-> "", pos |-> 0, byte |-> 0]

Fail(st, e) ==
    [st EXCEPT !.phase = "err", !.err = e]

InvalidToken(s, st) ==
    [st EXCEPT !.phase = "err", !.err = "InvalidToken", !.i = st.i + 1,
               !.pos = st.i, !.byte = s[st.i + 1]]

\* 'params: while start < s.len()
WhileParams(s, st) ==
    IF st.start < Len(s)
        THEN [st EXCEPT !.phase = "name"]
        ELSE [st EXCEPT !.phase = "done"]

\* Variant: start is left at the separator.
EnterParams_start_at_separator(s, st, at) ==
    WhileParams(s, [st EXCEPT !.i = at + 1, !.params_start = as_u16(at),
                              !.start = at, !.params = ParamSource_None])

\* The entry of params_from_str: params_start = as_u16(start); start += 1.
EnterParams(s, st, at) ==
    WhileParams(s, [st EXCEPT !.i = at + 1, !.params_start = as_u16(at),
                              !.start = at + 1, !.params = ParamSource_None])

\* Variant: the first parameter takes the Utf8 shape wherever its name starts.
PushParam_any_layout(s, st, value) ==
    LET p    == st.params
        name == st.name
        nv   == <<name, value>>
        next ==
            IF p.kind = "Utf8" THEN
                LET i       == as_u16(p.pos[1] + 2)
                    charset == <<i, as_u16(Len(CHARSET) + i)>>
                    utf8    == <<as_u16(charset[2] + 1), as_u16(charset[2] + Len(UTF_8) + 1)>>
                IN  ParamSource_Two(st.params_start, <<charset, utf8>>, nv)
            ELSE IF p.kind = "One" THEN
                ParamSource_Two(p.pos[1], p.pairs[1], nv)
            ELSE IF p.kind = "Two" THEN
                ParamSource_Custom(p.pos[1], <<p.pairs[1], p.pairs[2], nv>>)
            ELSE IF p.kind = "Custom" THEN
                ParamSource_Custom(p.pos[1], Append(p.pairs, nv))
            ELSE IF /\ eq_ignore_ascii_case(CHARSET, Slice(s, name[1], name[2]))
                    /\ eq_ignore_ascii_case(UTF_8, Slice(s, value[1], value[2]))
                THEN ParamSource_Utf8(st.params_start)
                ELSE ParamSource_One(st.params_start, nv)
    IN  WhileParams(s, [st EXCEPT !.params = next])

\* The match on params that ends one pass of the 'params loop.
PushParam(s, st, value) ==
    LET p    == st.params
        name == st.name
        nv   == <<name, value>>
        next ==
            IF p.kind = "Utf8" THEN
                LET i       == as_u16(p.pos[1] + 2)
                    charset == <<i, as_u16(Len(CHARSET) + i)>>
                    utf8    == <<as_u16(charset[2] + 1), as_u16(charset[2] + Len(UTF_8) + 1)>>
                IN  ParamSource_Two(st.params_start, <<charset, utf8>>, nv)
            ELSE IF p.kind = "One" THEN
                ParamSource_Two(p.pos[1], p.pairs[1], nv)
            ELSE IF p.kind = "Two" THEN
                ParamSource_Custom(p.pos[1], <<p.pairs[1], p.pairs[2], nv>>)
            ELSE IF p.kind = "Custom" THEN
                ParamSource_Custom(p.pos[1], Append(p.pairs, nv))
            ELSE IF /\ as_u16(st.params_start + 2) = name[1]
                    /\ eq_ignore_ascii_case(CHARSET, Slice(s, name[1], name[2]))
                    /\ eq_ignore_ascii_case(UTF_8, Slice(s, value[1], value[2]))
                THEN ParamSource_Utf8(st.params_start)
                ELSE ParamSource_One(st.params_start, nv)
    IN  WhileParams(s, [st EXCEPT !.params = next])

\* Variant: a recorded suffix marker is never replaced.
some_plus_once(plus, i) ==
    IF plus = <<>> THEN <<as_u16(i)>> ELSE plus

\* plus = Some(as_u16(i)), whatever plus held
some_plus(plus, i) ==
    <<as_u16(i)>>

\* One iteration of the loop the scanner is in: its iter.next() and the match
\* arm selected.  The sublevel arm of `*` holds a match on a second
\* iter.next(), made in the same iteration.
Step(s, can_range, st) ==
    LET i    == st.i
        none == i >= Len(s)
        c    == s[i + 1]
        adv  == [st EXCEPT !.i = i + 1]
    IN  CASE st.phase = "top" ->
                IF none THEN Fail(st, "MissingSlash")
                ELSE IF is_token(c) THEN adv
                ELSE IF c = B_SLASH /\ i > 0 THEN
                    [adv EXCEPT !.slash = as_u16(i), !.start = i + 1, !.phase = "sub"]
                ELSE InvalidToken(s, st)
          [] st.phase = "sub" ->
                IF none THEN [st EXCEPT !.phase = "eof"]
                ELSE IF c = B_PLUS /\ i > st.start THEN
                    [adv EXCEPT !.plus = some_plus(st.plus, i)]
                ELSE IF c = B_SEMI /\ i > st.start THEN EnterParams(s, st, i)
                ELSE IF c = B_SPACE /\ i > st.start THEN EnterParams(s, st, i)
                ELSE IF c = B_STAR /\ i = st.start /\ can_range THEN
                    \* the arm's own match iter.next()
                    IF i + 1 >= Len(s) THEN [adv EXCEPT !.phase = "eof"]
                    ELSE IF s[i + 2] = B_SEMI THEN EnterParams(s, st, i + 1)
                    ELSE InvalidToken(s, adv)
                ELSE IF is_token(c) THEN adv
                ELSE InvalidToken(s, st)
          [] st.phase = "name" ->
                IF none THEN Fail(st, "MissingEqual")
                ELSE IF c = B_SPACE /\ i = st.start THEN
                    WhileParams(s, [adv EXCEPT !.start = i + 1])
                ELSE IF c = B_SEMI /\ i = st.start THEN
                    WhileParams(s, [adv EXCEPT !.start = i + 1])
                ELSE IF is_token(c) THEN adv
                ELSE IF c = B_EQ /\ i > st.start THEN
                    [adv EXCEPT !.name = <<as_u16(st.start), as_u16(i)>>,
                                !.start = i + 1, !.phase = "value"]
                ELSE InvalidToken(s, st)
          [] st.phase = "value" ->
                IF none THEN
                    PushParam(s, [st EXCEPT !.start = Len(s)],
                              <<as_u16(st.start), as_u16(Len(s))>>)
                ELSE IF c = B_QUOTE /\ i = st.start THEN
                    [adv EXCEPT !.start = i, !.phase = "quoted"]
                ELSE IF is_token(c) THEN adv
                ELSE IF (c = B_SPACE \/ c = B_SEMI) /\ i > st.start THEN
                    PushParam(s, [adv EXCEPT !.start = i + 1],
                              <<as_u16(st.start), as_u16(i)>>)
                ELSE InvalidToken(s, st)
          [] st.phase = "quoted" ->
                IF none THEN Fail(st, "MissingQuote")
                ELSE IF c = B_QUOTE /\ i > st.start THEN
                    PushParam(s, [adv EXCEPT !.start = i + 1],
                              <<as_u16(st.start), as_u16(i + 1)>>)
                ELSE IF c = B_BACKSLASH THEN [adv EXCEPT !.phase = "pair"]
                ELSE IF is_restricted_quoted_char(c) THEN adv
                ELSE InvalidToken(s, st)
          [] st.phase = "pair" ->
                IF none THEN Fail(st, "MissingQuote")
                ELSE IF is_restricted_quoted_char(c) THEN [adv EXCEPT !.phase = "quoted"]
                ELSE InvalidToken(s, st)
          [] OTHER -> st

Scanning(st) ==
    st.phase \notin {"eof", "done", "err"}

\* Every iteration takes a byte or finds the end of input and returns, so
\* the loops make at most Len(s) + 1 iterations.  Run makes up to n of them
\* and stops at the first return; it halves n so that the evaluation depth
\* stays logarithmic on inputs near the length limit.
RECURSIVE Run(_, _, _, _)
Run(s, can_range, st, n) ==
    IF ~Scanning(st) \/ n = 0 THEN st
    ELSE IF n = 1 THEN Step(s, can_range, st)
    ELSE Run(s, can_range, Run(s, can_range, st, n \div 2), n - (n \div 2))

Scan(s, can_range, st) ==
    Run(s, can_range, st, Len(s) + 1)

\* What parse returns once the scan has ended in state st: the error, or the
\* Mime with its source interned or lower-cased.
Returned(s, st) ==
    LET p == st.params
    IN  IF st.phase = "err" THEN Err(st.err, st.pos, st.byte)
        ELSE IF st.phase = "eof" THEN
            Ok(intern(s, st.slash, <<>>), st.slash, st.plus, ParamSource_None)
        ELSE
            Ok(CASE p.kind = "None" ->
                    intern(Slice(s, 0, st.params_start), st.slash, <<>>)
                 [] p.kind = "Utf8" -> intern(s, st.slash, p.pos)
                 [] OTHER ->
                    Dynamic(lower_ascii_with_params(s, p.pos[1], p.pairs)),
               st.slash, st.plus, p)

\* Variant: no input is too long.
too_long_never(s) ==
    FALSE

\* s.len() > std::u16::MAX as usize
too_long(s) ==
    Len(s) > U16_MAX

\* Variant: the scanner is run as if the parser could always range.
parse_always_range(can_range, s) ==
    IF too_long(s) THEN Err("TooLong", 0, 0)
    ELSE IF s = AtomSrc[STAR_STAR] THEN
        IF can_range THEN STAR_STAR_MIME ELSE Err("InvalidRange", 0, 0)
    ELSE
        Only({ Returned(s, st) : st \in {Scan(s, TRUE, ScanStart)} })

\* pub(crate) fn parse(opts: &Parser, src: impl Parse) -> Result<Mime, ParseError>
parse(can_range, s) ==
    IF too_long(s) THEN Err("TooLong", 0, 0)
    ELSE IF s = AtomSrc[STAR_STAR] THEN
        IF can_range THEN STAR_STAR_MIME ELSE Err("InvalidRange", 0, 0)
    ELSE
        Only({ Returned(s, st) : st \in {Scan(s, can_range, ScanStart)} })

\* ---- the checks of a build with debug assertions and overflow checks ----
\* debug_assert!(i <= std::u16::MAX as usize, "as_u16 overflow")
as_u16_asserted(i) ==
    i <= U16_MAX

\* x + y on u16 with overflow checks
u16_add_checked(x, y) ==
    x + y <= U16_MAX

\* str::is_char_boundary: 0, len, or a byte that is not 10xxxxxx
is_char_boundary(s, k) ==
    k = 0 \/ k = Len(s) \/ (k < Len(s) /\ ~(s[k + 1] >= 128 /\ s[k + 1] <= 191))

\* &s[lo..hi] does not panic
slice_checked(s, lo, hi) ==
    lo <= hi /\ hi <= Len(s) /\ is_char_boundary(s, lo) /\ is_char_boundary(s, hi)

\* The checks made by the match on params that ends one pass of 'params.
PushChecked(s, st, value) ==
    LET p    == st.params
        name == st.name
    IN  IF p.kind = "Utf8" THEN
            /\ u16_add_checked(p.pos[1], 2)
            /\ u16_add_checked(Len(CHARSET), p.pos[1] + 2)
            /\ u16_add_checked(p.pos[1] + 2 + Len(CHARSET), 1)
            /\ u16_add_checked(p.pos[1] + 2 + Len(CHARSET), Len(UTF_8))
            /\ u16_add_checked(p.pos[1] + 2 + Len(CHARSET) + Len(UTF_8), 1)
        ELSE IF p.kind = "None" THEN
            /\ u16_add_checked(st.params_start, 2)
            /\ st.params_start + 2 = name[1] =>
                /\ slice_checked(s, name[1], name[2])
                /\ eq_ignore_ascii_case(CHARSET, Slice(s, name[1], name[2])) =>
                        slice_checked(s, value[1], value[2])
        ELSE TRUE

\* The checks made in one iteration of the loop the scanner is in.
StepChecked(s, can_range, st) ==
    LET i    == st.i
        none == i >= Len(s)
        c    == s[i + 1]
    IN  CASE st.phase = "top" ->
                (~none /\ ~is_token(c) /\ c = B_SLASH /\ i > 0) => as_u16_asserted(i)
          [] st.phase = "sub" ->
                /\ (~none /\ c \in {B_PLUS, B_SEMI, B_SPACE} /\ i > st.start) =>
                        as_u16_asserted(i)
                /\ (~none /\ c = B_STAR /\ i = st.start /\ can_range
                          /\ i + 1 < Len(s) /\ s[i + 2] = B_SEMI) =>
                        as_u16_asserted(i + 1)
          [] st.phase = "name" ->
                (~none /\ ~(c \in {B_SPACE, B_SEMI} /\ i = st.start) /\ ~is_token(c)
                       /\ c = B_EQ /\ i > st.start) =>
                    as_u16_asserted(st.start) /\ as_u16_asserted(i)
          [] st.phase = "value" ->
                IF none THEN
                    /\ as_u16_asserted(st.start) /\ as_u16_asserted(Len(s))
                    /\ PushChecked(s, st, <<st.start, Len(s)>>)
                ELSE (~(c = B_QUOTE /\ i = st.start) /\ ~is_token(c)
                        /\ c \in {B_SPACE, B_SEMI} /\ i > st.start) =>
                    /\ as_u16_asserted(st.start) /\ as_u16_asserted(i)
                    /\ PushChecked(s, st, <<st.start, i>>)
          [] st.phase = "quoted" ->
                (~none /\ c = B_QUOTE /\ i > st.start) =>
                    /\ as_u16_asserted(st.start) /\ as_u16_asserted(i + 1)
                    /\ PushChecked(s, st, <<st.start, i + 1>>)
          [] OTHER -> TRUE

\* Atoms::intern(s, slash, params): its debug_assert and the slices of
\* intern_charset_utf8 / intern_no_params.
InternChecked(s, slash, params) ==
    /\ Len(s) > slash
    /\ slice_checked(s, 0, slash)
    /\ slice_checked(s, slash + 1, IF params # <<>> THEN params[1] ELSE Len(s))

\* lower_ascii_with_params(s, semi, params): its slices.  The value is sliced
\* only when the lower-cased name is charset.
LowerChecked(s, semi, params) ==
    /\ slice_checked(s, 0, semi)
    /\ \A k \in 1..Len(params) :
          /\ slice_checked(s, params[k][1][1], params[k][1][2])
          /\ to_ascii_lowercase(Slice(s, params[k][1][1], params[k][1][2])) = CHARSET
                => slice_checked(s, params[k][2][1], params[k][2][2])

\* The checks parse makes after the scan: the two debug assertions of the
\* empty parameter list, then intern or lower_ascii_with_params.
FinishChecked(s, st) ==
    LET p == st.params
    IN  CASE st.phase = "eof" -> InternChecked(s, st.slash, <<>>)
          [] st.phase = "done" /\ p.kind = "None" ->
                /\ Len(s) # st.params_start
                /\ s[st.params_start + 1] \in {B_SEMI, B_SPACE}
                /\ slice_checked(s, 0, st.params_start)
                /\ InternChecked(Slice(s, 0, st.params_start), st.slash, <<>>)
          [] st.phase = "done" /\ p.kind = "Utf8" -> InternChecked(s, st.slash, p.pos)
          [] st.phase = "done" -> LowerChecked(s, p.pos[1], p.pairs)
          [] OTHER -> TRUE

\* The scan, stopped in phase "panic" at the first iteration whose checks fail.
RECURSIVE RunChecked(_, _, _, _)
RunChecked(s, can_range, st, n) ==
    IF ~Scanning(st) \/ st.phase = "panic" \/ n = 0 THEN st
    ELSE IF n = 1 THEN
        IF StepChecked(s, can_range, st) THEN Step(s, can_range, st)
        ELSE [st EXCEPT !.phase = "panic"]
    ELSE RunChecked(s, can_range, RunChecked(s, can_range, st, n \div 2), n - (n \div 2))

\* parse in a build with debug assertions: the result of parse, or "Panic"
\* when a check fails on the way.
parse_debug(can_range, s) ==
    IF too_long(s) \/ s = AtomSrc[STAR_STAR] THEN parse(can_range, s)
    ELSE
        Only({ IF st.phase = "panic" \/ ~FinishChecked(s, st)
                   THEN Err("Panic", 0, 0)
                   ELSE Returned(s, st) :
               st \in {RunChecked(s, can_range, ScanStart, Len(s) + 1)} })

\* ---- accessors (mime-parse/src/lib.rs) ----
as_ref(m) ==
    m.source.str

semicolon(m) ==
    m.params.pos

semicolon_or_end(m) ==
    IF semicolon(m) # <<>> THEN semicolon(m)[1] ELSE Len(as_ref(m))

type_(m) ==
    Slice(as_ref(m), 0, m.slash)

\* Variant: the subtype ends at the suffix marker when one is recorded.
subtype_to_plus(m) ==
    Slice(as_ref(m), m.slash + 1,
          IF m.plus # <<>> THEN m.plus[1]
          ELSE IF m.params.pos # <<>> THEN m.params.pos[1]
          ELSE Len(m.source.str))

subtype(m) ==
    Slice(as_ref(m), m.slash + 1, semicolon_or_end(m))

\* Option<&str>: None is <<>>, Some(x) is <<x>>.
\* Variant: the suffix runs to the end of the string.
suffix_to_len(m) ==
    IF m.plus = <<>> THEN <<>>
    ELSE << Slice(as_ref(m), m.plus[1] + 1, Len(as_ref(m))) >>

suffix(m) ==
    IF m.plus = <<>> THEN <<>>
    ELSE << Slice(as_ref(m), m.plus[1] + 1, semicolon_or_end(m)) >>

has_params(m) ==
    semicolon(m) # <<>>

private_atom(m) ==
    m.source.atom

essence(m) ==
    Slice(as_ref(m), 0, semicolon_or_end(m))

\* Mime::params(): what the iterator yields, in order, as <<name, value>> pairs.
params(m) ==
    IF m.params.kind = "Utf8" THEN << <<CHARSET, UTF_8>> >>
    ELSE [k \in 1..Len(m.params.pairs) |->
            << Slice(as_ref(m), m.params.pairs[k][1][1], m.params.pairs[k][1][2]),
               Slice(as_ref(m), m.params.pairs[k][2][1], m.params.pairs[k][2][2]) >>]

\* Params::size_hint() of a fresh iterator: (n, Some(n)).
size_hint(m) ==
    CASE m.params.kind = "Utf8" -> <<1, <<1>> >>
      [] m.params.kind = "One" -> <<1, <<1>> >>
      [] m.params.kind = "Two" -> <<2, <<2>> >>
      [] m.params.kind = "Custom" -> <<Len(m.params.pairs), <<Len(m.params.pairs)>> >>
      [] OTHER -> <<0, <<0>> >>

\* ---- Value (src/value.rs) ----
\* The characters ContentChars::from_string_unchecked iterates: the source itself,
\* or for a quoted-string what is between the quotes with each quoted-pair
\* replaced by the character it escapes.
RECURSIVE unquote(_, _)
unquote(s, k) ==
    IF k > Len(s) - 1 THEN <<>>
    ELSE IF s[k] = B_BACKSLASH /\ k + 1 <= Len(s) - 1
        THEN <<s[k + 1]>> \o unquote(s, k + 2)
        ELSE <<s[k]>> \o unquote(s, k + 1)

ContentChars(source) ==
    IF Len(source) > 0 /\ source[1] = B_QUOTE THEN unquote(source, 2) ELSE source

\* Value::new(v).for_name(n)
for_name(v, name) ==
    [source |-> v, ascii_case_insensitive |-> (name = CHARSET)]

\* impl PartialEq<Value> for Value
value_eq(a, b) ==
    IF a.ascii_case_insensitive \/ b.ascii_case_insensitive
        THEN eq_ignore_ascii_case(ContentChars(a.source), ContentChars(b.source))
        ELSE ContentChars(a.source) = ContentChars(b.source)

\* value::params(mime): the pairs (name, Value), in order.
value_params(m) ==
    [k \in 1..Len(params(m)) |->
        << params(m)[k][1], for_name(params(m)[k][2], params(m)[k][1]) >>]

\* value::param(mime, key): Option<Value>, the first pair whose name is key.
param(m, key) ==
    LET ps   == value_params(m)
        hits == {k \in 1..Len(ps) : ps[k][1] = key}
    IN  IF hits = {} THEN <<>>
        ELSE << ps[CHOOSE k \in hits : \A j \in hits : k <= j][2] >>

\* Option<Value> == Some(value)
option_eq_some(opt, value) ==
    opt # <<>> /\ value_eq(opt[1], value)

\* ---- equality (src/cmp.rs) ----
essence_eq(a, b) ==
    essence(a) = essence(b)

\* Variant: each parameter of a is looked up in a itself.
params_eq_self(a, b) ==
    IF size_hint(a) # size_hint(b) THEN FALSE
    ELSE \A k \in 1..Len(value_params(a)) :
            option_eq_some(param(a, value_params(a)[k][1]), value_params(a)[k][2])

params_eq(a, b) ==
    IF size_hint(a) # size_hint(b) THEN FALSE
    ELSE \A k \in 1..Len(value_params(a)) :
            option_eq_some(param(b, value_params(a)[k][1]), value_params(a)[k][2])

\* Variant: two interned values are equal whatever their identities.
mime_eq_any_atoms(a, b) ==
    IF private_atom(a) = 0 \/ private_atom(b) = 0
        THEN essence_eq(a, b) /\ params_eq(a, b)
        ELSE TRUE

mime_eq(a, b) ==
    IF private_atom(a) = 0 \/ private_atom(b) = 0
        THEN essence_eq(a, b) /\ params_eq(a, b)
        ELSE private_atom(a) = private_atom(b)

\* Variant: a string that does not parse compares equal.
str_eq_unwrap_or_true(mime, s) ==
    IF has_params(mime) THEN
        LET other_mime == parse(TRUE, s)
        IN  IF other_mime.ok THEN mime_eq(mime, other_mime) ELSE TRUE
    ELSE eq_ignore_ascii_case(as_ref(mime), s)

str_eq(mime, s) ==
    IF has_params(mime) THEN
        LET other_mime == parse(TRUE, s)
        IN  IF other_mime.ok THEN mime_eq(mime, other_mime) ELSE FALSE
    ELSE eq_ignore_ascii_case(as_ref(mime), s)

\* ======================= the state machine =======================
\* One run takes an input string through the library: it is parsed, a second
\* string is obtained (the Display form of the first value, a permutation of its
\* parameters, a change of ASCII case, or an unrelated string), the second
\* string is parsed, and the two values are compared.

\* ---- bounds of the inputs ----
\* parameters (fragments after the essence) of an input of Spec
MaxParams ==
    3
\* parameters of each of the two inputs of SpecCmp
MaxCmpParams ==
    2
\* parameters of each of the two inputs of SpecOne
MaxOneParams ==
    1
\* parameters of an input of SpecCase, and bytes whose case is changed
MaxCaseParams ==
    2
MaxFlips ==
    2
\* parameters of an input of SpecRecase, and bytes whose case is changed
MaxRecaseParams ==
    2
MaxRecaseFlips ==
    1
\* length of the raw string that SpecStr compares a value with
MaxRaw ==
    4

RECURSIVE Concat(_, _)
Concat(fs, k) ==
    IF k > Len(fs) THEN <<>> ELSE fs[k] \o Concat(fs, k + 1)

\* essence \o fragment_1 \o ... \o fragment_n, n <= max
Build(essences, frags, max) ==
    { e \o Concat(fs, 1) :
        e \in essences, fs \in UNION { [1..n -> frags] : n \in 0..max } }

Essences ==
    { <<116,101,120,116,47,99,115,115>>,  \* "text/css"
      <<84,69,88,84,47,99,115,115>>,      \* "TEXT/css"
      <<116,101,120,116,47,42>>,          \* "text/*"
      <<42,47,42>>,                       \* "*/*"
      <<116,42,47,99,115,115>>,           \* "t*/css"
      <<97,47,66,43,99>> }                \* "a/B+c"

Frags ==
    { <<59,32,99,104,97,114,115,101,116,61,117,116,102,45,56>>,  \* "; charset=utf-8"
      <<59,67,72,65,82,83,69,84,61,85,84,70,45,56>>,             \* ";CHARSET=UTF-8"
      <<59>>,                                                    \* ";"
      <<32>>,                                                    \* " "
      <<59,32,120,61,65>>,                                       \* "; x=A"
      <<59,120,61,97>>,                                          \* ";x=a"
      <<59,121,61,34,92,65,34>> }                                \* ";y="\A""

Inputs ==
    Build(Essences, Frags, MaxParams)

CmpEssences ==
    { <<116,101,120,116,47,112,108,97,105,110>>,  \* "text/plain"
      <<84,69,88,84,47,112,108,97,105,110>>,      \* "TEXT/plain"
      <<97,47,98>> }                              \* "a/b"

CmpFrags ==
    { <<59,32,99,104,97,114,115,101,116,61,117,116,102,45,56>>,  \* "; charset=utf-8"
      <<59,67,72,65,82,83,69,84,61,85,84,70,45,56>>,             \* ";CHARSET=UTF-8"
      <<59,32,97,97,97,61,98,98,98>>,                            \* "; aaa=bbb"
      <<59,32,99,99,99,61,100,100,100>>,                         \* "; ccc=ddd"
      <<59,97,97,97,61,66,66,66>>,                               \* ";aaa=BBB"
      <<59,65,65,65,61,34,98,98,98,34>> }                        \* ";AAA="bbb""

CmpInputs ==
    Build(CmpEssences, CmpFrags, MaxCmpParams)

OneInputs ==
    Build(CmpEssences, CmpFrags, MaxOneParams)

CaseEssences ==
    { <<116,101,120,116,47,99,115,115>>,  \* "text/css"
      <<97,47,66,43,99>> }                \* "a/B+c"

CaseFrags ==
    { <<59,32,99,104,97,114,115,101,116,61,117,116,102,45,56>>,  \* "; charset=utf-8"
      <<59,99,104,97,114,115,101,116,61,98>>,                    \* ";charset=b"
      <<59,120,61,97>>,                                          \* ";x=a"
      <<59,121,61,34,92,65,34>> }                                \* ";y="\A""

CaseInputs ==
    Build(CaseEssences, CaseFrags, MaxCaseParams)

RecaseInputs ==
    Build(CaseEssences, CaseFrags, MaxRecaseParams)

StrSubjects ==
    { <<97,47,97>>,               \* "a/a"
      <<65,47,97>>,               \* "A/a"
      <<97,47,97,59>>,            \* "a/a;"
      <<97,47,97,59,97,61,97>> }  \* "a/a;a=a"

RawBytes ==
    { 97, 65, 47, 59, 61, 32, 42 }    \* a A / ; = space *

StrPrefixes ==
    { <<>>, <<97,47,97>> }        \* "", "a/a"

RawStrings ==
    { p \o r : p \in StrPrefixes,
               r \in UNION { [1..n -> RawBytes] : n \in 0..MaxRaw } }

VARIABLES
    can_range,  \* Parser::can_range() or Parser::cannot_range()
    src,        \* the first input string
    fill,       \* how many b'a' bytes a test prepends to it (vec![b'a'; n])
    pc,         \* "input", "parsed", "other", "both", "compared"
    a,          \* parse(src)
    how,        \* how the second string was obtained
    other,      \* the second string
    b,          \* parse(other)
    eq,         \* the results of the comparisons
    st,         \* the scanner's locals, when the scan is followed turn by turn
    it,         \* a Params iterator over a
    turns       \* how many loop iterations the followed scan has made

vars == <<can_range, src, fill, pc, a, how, other, b, eq, st, it, turns>>

NotParsed ==
    Err("", 0, 0)

NotCompared ==
    [ab |-> FALSE, ba |-> FALSE, str |-> FALSE, matches |-> FALSE]

\* ParamsInner::None: an iterator that yields nothing.
ParamsInner_None ==
    [kind |-> "None", pairs |-> <<>>]

\* No iterator has been asked for yet.
NotIterating ==
    [inner |-> ParamsInner_None, yielded |-> <<>>, nones |-> 0]

InitWith(inputs, modes) ==
    /\ can_range \in modes
    /\ src \in inputs
    /\ fill = 0
    /\ pc = "input"
    /\ a = NotParsed
    /\ how = ""
    /\ other = <<>>
    /\ b = NotParsed
    /\ eq = NotCompared
    /\ st = ScanStart
    /\ it = NotIterating
    /\ turns = 0

\* Parser::parse(src)
ParseSrc ==
    /\ pc = "input"
    /\ a' = parse(can_range, src)
    /\ pc' = "parsed"
    /\ UNCHANGED <<can_range, src, fill, how, other, b, eq, st, it, turns>>

\* impl Display for Mime: mime.to_string()
to_string(m) ==
    as_ref(m)

Display ==
    /\ pc = "parsed"
    /\ a.ok
    /\ other' = to_string(a)
    /\ how' = "display"
    /\ pc' = "other"
    /\ UNCHANGED <<can_range, src, fill, a, b, eq, st, it, turns>>

\* The caller's second string is the first with its parameters in another order:
\* the name=value texts change places, everything between and around them stays.
ParamText(s, m, k) ==
    Slice(s, m.params.pairs[k][1][1], m.params.pairs[k][2][2])

\* What precedes parameter k: the essence and separator for the first, the
\* separator after the value before it for the others.
Gap(s, m, k) ==
    Slice(s, IF k = 1 THEN 0 ELSE m.params.pairs[k - 1][2][2], m.params.pairs[k][1][1])

Permutable(m) ==
    m.ok /\ Len(m.params.pairs) >= 2

Orders(n) ==
    { p \in [1..n -> 1..n] : \A x, y \in 1..n : p[x] = p[y] => x = y }

Reorder(s, m, p) ==
    LET n == Len(m.params.pairs)
    IN  Concat([k \in 1..n |-> Gap(s, m, k) \o ParamText(s, m, p[k])], 1)
            \o Slice(s, m.params.pairs[n][2][2], Len(s))

Permute ==
    /\ pc = "parsed"
    /\ Permutable(a)
    /\ \E p \in Orders(Len(a.params.pairs)) :
          /\ \E k \in DOMAIN p : p[k] # k
          /\ other' = Reorder(src, a, p)
    /\ how' = "permute"
    /\ pc' = "other"
    /\ UNCHANGED <<can_range, src, fill, a, b, eq, st, it, turns>>

\* The caller's second string is the first with the ASCII case of some letters
\* changed, one byte at a time.
IsLetter(c) ==
    (c >= 65 /\ c <= 90) \/ (c >= 97 /\ c <= 122)

FlipByte(c) ==
    IF c >= 65 /\ c <= 90 THEN c + 32 ELSE c - 32

Flipped ==
    { k \in 1..Len(src) : Len(other) = Len(src) /\ other[k] # src[k] }

Recase(max) ==
    /\ \/ pc = "parsed" /\ a.ok
       \/ pc = "other" /\ how = "recase" /\ Cardinality(Flipped) < max
    /\ \E k \in 1..Len(src) :
          /\ IsLetter(src[k])
          /\ k \notin (IF pc = "other" THEN Flipped ELSE {})
          /\ other' = [(IF pc = "other" THEN other ELSE src) EXCEPT ![k] = FlipByte(src[k])]
    /\ how' = "recase"
    /\ pc' = "other"
    /\ UNCHANGED <<can_range, src, fill, a, b, eq, st, it, turns>>

\* The caller's second string is an unrelated string.
Receive(strings) ==
    /\ pc = "parsed"
    /\ a.ok
    /\ other' \in strings
    /\ how' = "given"
    /\ pc' = "other"
    /\ UNCHANGED <<can_range, src, fill, a, b, eq, st, it, turns>>

\* Parser::parse(other)
ParseOther ==
    /\ pc = "other"
    /\ b' = parse(can_range, other)
    /\ pc' = "both"
    /\ UNCHANGED <<can_range, src, fill, a, how, other, eq, st, it, turns>>

\* a == b, b == a (impl PartialEq for MediaType) and a == other (PartialEq<str>)
Compare ==
    /\ pc = "both"
    /\ b.ok
    /\ eq' = [ab |-> mime_eq(a, b), ba |-> mime_eq(b, a), str |-> str_eq(a, other),
              matches |-> FALSE]
    /\ pc' = "compared"
    /\ UNCHANGED <<can_range, src, fill, a, how, other, b, st, it, turns>>

\* Parser::can_range().parse(other): what a caller does who parses the raw
\* string as a range before comparing.
ParseRange ==
    /\ pc = "other"
    /\ b' = parse(TRUE, other)
    /\ pc' = "both"
    /\ UNCHANGED <<can_range, src, fill, a, how, other, eq, st, it, turns>>

\* a == other (PartialEq<str>) where other need not parse, next to the
\* comparison of a with the parsed range when there is one
CompareStr ==
    /\ pc = "both"
    /\ eq' = [ab |-> b.ok /\ mime_eq(a, b), ba |-> b.ok /\ mime_eq(b, a),
              str |-> str_eq(a, other), matches |-> FALSE]
    /\ pc' = "compared"
    /\ UNCHANGED <<can_range, src, fill, a, how, other, b, st, it, turns>>

\* Round trip of one input, in both parser modes.
Init ==
    InitWith(Inputs, BOOLEAN)

Next ==
    \/ ParseSrc
    \/ Display
    \/ ParseOther
    \/ Compare

Spec ==
    Init /\ [][Next]_vars

\* One input and its parameters in another order, in both parser modes.
NextOrder ==
    \/ ParseSrc
    \/ Permute
    \/ ParseOther
    \/ Compare

SpecOrder ==
    Init /\ [][NextOrder]_vars

\* Two independent inputs.
InitCmp ==
    InitWith(CmpInputs, {FALSE})

NextCmp ==
    \/ ParseSrc
    \/ Receive(CmpInputs)
    \/ ParseOther
    \/ Compare

SpecCmp ==
    InitCmp /\ [][NextCmp]_vars

\* Two independent inputs of at most MaxOneParams parameters.
InitOne ==
    InitWith(OneInputs, {FALSE})

NextOne ==
    \/ ParseSrc
    \/ Receive(OneInputs)
    \/ ParseOther
    \/ Compare

SpecOne ==
    InitOne /\ [][NextOne]_vars

\* An input and the same input in another ASCII case.
InitCase ==
    InitWith(CaseInputs, {FALSE})

NextCase ==
    \/ ParseSrc
    \/ Recase(MaxFlips)
    \/ ParseOther
    \/ Compare

SpecCase ==
    InitCase /\ [][NextCase]_vars

InitRecase ==
    InitWith(RecaseInputs, {FALSE})

NextRecase ==
    \/ ParseSrc
    \/ Recase(MaxRecaseFlips)
    \/ ParseOther
    \/ Compare

SpecRecase ==
    InitRecase /\ [][NextRecase]_vars

\* A value and a raw string.
InitStr ==
    InitWith(StrSubjects, {FALSE, TRUE})

NextStr ==
    \/ ParseSrc
    \/ Receive(RawStrings)
    \/ ParseRange
    \/ CompareStr

SpecStr ==
    InitStr /\ [][NextStr]_vars

\* ======================= the properties =======================
\* ---- what the contract says, stated without the comparison code ----

\* The (name, value) index pairs of a parsed value, the Utf8 shape included
\* (its pair is where the scanner saw it: rfc7231.rs, the Utf8 arm).
indices(m) ==
    IF m.params.kind = "Utf8"
        THEN LET i == m.params.pos[1] + 2
             IN  << << <<i, i + Len(CHARSET)>>,
                       <<i + Len(CHARSET) + 1, i + Len(CHARSET) + 1 + Len(UTF_8)>> >> >>
        ELSE m.params.pairs

\* Offset of the first `;` or space of s, or its length: the end of the essence.
EssenceEnd(s) ==
    LET seps == {k \in 1..Len(s) : s[k] \in {B_SEMI, B_SPACE}}
    IN  IF seps = {} THEN Len(s) ELSE (CHOOSE k \in seps : \A j \in seps : k <= j) - 1

Within(k, r) ==
    r[1] <= k - 1 /\ k - 1 < r[2]

\* What byte k (1-based) of the input s belongs to, m being parse(s).
Region(s, m, k) ==
    LET ix == indices(m)
    IN  IF k - 1 < EssenceEnd(s) THEN "essence"
        ELSE IF \E n \in 1..Len(ix) : Within(k, ix[n][1]) THEN "name"
        ELSE IF \E n \in 1..Len(ix) :
                    /\ Within(k, ix[n][2])
                    /\ to_ascii_lowercase(Slice(s, ix[n][1][1], ix[n][1][2])) = CHARSET
            THEN "charset"
        ELSE IF \E n \in 1..Len(ix) : Within(k, ix[n][2]) THEN "value"
        ELSE "separator"

Insensitive ==
    {"essence", "name", "charset"}

\* s with the case-insensitive parts lower-cased and every other byte kept.
LowerRegions(s, m) ==
    [k \in 1..Len(s) |->
        IF Region(s, m, k) \in Insensitive THEN ascii_lower(s[k]) ELSE s[k]]

\* The value rule: the contents (quotes and quoted-pairs resolved) are the same,
\* up to ASCII case for charset.
SameValue(name, v, w) ==
    IF to_ascii_lowercase(name) = CHARSET
        THEN to_ascii_lowercase(ContentChars(v)) = to_ascii_lowercase(ContentChars(w))
        ELSE ContentChars(v) = ContentChars(w)

SameParam(p, q) ==
    /\ to_ascii_lowercase(p[1]) = to_ascii_lowercase(q[1])
    /\ SameValue(p[1], p[2], q[2])

Covers(x, y) ==
    \A i \in 1..Len(params(x)) : \E j \in 1..Len(params(y)) :
        SameParam(params(x)[i], params(y)[j])

\* The same parameters: as many on both sides, and every parameter of either
\* side has a match on the other.
SameParamSet(x, y) ==
    /\ Len(params(x)) = Len(params(y))
    /\ Covers(x, y)
    /\ Covers(y, x)

SameMedia(x, y) ==
    /\ to_ascii_lowercase(essence(x)) = to_ascii_lowercase(essence(y))
    /\ SameParamSet(x, y)

DistinctNames(m) ==
    \A i, j \in 1..Len(params(m)) :
        to_ascii_lowercase(params(m)[i][1]) = to_ascii_lowercase(params(m)[j][1]) => i = j

HasStar(s) ==
    \E k \in 1..Len(s) : s[k] = B_STAR

\* ---- C1 ----
\* C1: for all successfully parsed a and b, mime_eq(a, b) is true if and only
\* if a and b have the same essence (ASCII-case-insensitively) and the same set
\* of parameters (names case-insensitive, charset value case-insensitive, every
\* other value case-sensitive).
C1_MimeEqIffSameMedia ==
    pc = "compared" => (eq.ab <=> SameMedia(a, b))

\* ---- C2 ----
\* C2: idempotence: for every input that parses, re-parsing the string form of
\* the parsed value succeeds and yields a value equal to it under mime_eq.
C2_Idempotent ==
    /\ (pc = "both" /\ how = "display") => b.ok
    /\ (pc = "compared" /\ how = "display") => eq.ab

\* ---- C3 ----
\* C3 as stated: for every input that parses, the string form of the parsed
\* value has the length of the input and is the input with only type, subtype,
\* suffix, parameter names and charset values lower-cased.
C3_RoundTripAsStated ==
    (pc = "other" /\ how = "display") => other = LowerRegions(src, a)

\* C3 amended: the string form of the parsed value is (a) for an input without
\* parameters, the lower-cased input cut at its first `;` or space; (b) for a
\* value interned as a charset=utf-8 atom, the lower-cased essence followed by
\* "; charset=utf-8"; (c) otherwise the input with only type, subtype, suffix,
\* parameter names and charset values lower-cased, of the same length.
RoundTrip(s, m) ==
    LET ess == to_ascii_lowercase(Slice(s, 0, EssenceEnd(s)))
    IN  IF m.params.kind = "None" THEN ess
        ELSE IF private_atom(m) # 0
            THEN ess \o <<B_SEMI, B_SPACE>> \o CHARSET \o <<B_EQ>> \o UTF_8
        ELSE LowerRegions(s, m)

C3_RoundTrip ==
    (pc = "other" /\ how = "display") => other = RoundTrip(src, a)

\* Reached: the string form of a value interned as a charset=utf-8 atom, from
\* an input whose separators are not the atom's.
C3_Witness ==
    /\ pc = "other" /\ how = "display"
    /\ a.params.kind = "Utf8" /\ private_atom(a) # 0
    /\ Len(other) = Len(src) /\ other # src

\* ---- C4 ----
\* C4: parameter order never matters: for every valid input with two or more
\* parameters, any permutation of its parameters parses to a value equal to
\* the parse of the original, under mime_eq and under comparison with the
\* permuted raw string.
C4_OrderIndependent ==
    /\ (pc = "both" /\ how = "permute") => b.ok
    /\ (pc = "compared" /\ how = "permute") => (eq.ab /\ eq.ba /\ eq.str)

\* ---- C5 ----
\* C5: case-insensitivity: for every valid input whose parameter names are
\* pairwise distinct, changing the ASCII case of bytes of the type, subtype,
\* suffix, parameter names or a charset value yields an input that parses to a
\* value equal to the parse of the original, atom or not.
InsensitiveChange ==
    /\ how = "recase"
    /\ DistinctNames(a)
    /\ \A k \in Flipped : Region(src, a, k) \in Insensitive

C5_CaseInsensitive ==
    InsensitiveChange =>
        /\ pc = "both" => b.ok
        /\ pc = "compared" => (eq.ab /\ eq.ba)

\* Reached: an interned charset=utf-8 atom compared equal with the dynamic value
\* of the same input with the case of a byte of its essence changed.
C5_Witness ==
    /\ pc = "compared" /\ InsensitiveChange
    /\ private_atom(a) # 0 /\ a.params.kind = "Utf8" /\ private_atom(b) = 0
    /\ \E k \in Flipped : Region(src, a, k) = "essence"
    /\ eq.ab /\ eq.ba

\* ---- C6 ----
\* C6: value case sensitivity: two valid inputs that differ only in the ASCII
\* case of one byte inside the value of a parameter other than charset parse to
\* unequal values; the same change inside a charset value leaves them equal.
C6_ValueCaseSensitive ==
    (pc = "compared" /\ how = "recase" /\ Cardinality(Flipped) = 1) =>
        \A k \in Flipped :
            /\ Region(src, a, k) = "value" => (~eq.ab /\ ~eq.ba)
            /\ Region(src, a, k) = "charset" => (eq.ab /\ eq.ba)

\* ---- C7 ----
\* C7: two media types with the same essence that each carry exactly one
\* parameter are equal under mime_eq only if the two names are equal and the two
\* values are equal under the value rule; `text/plain; aaa=bbb` and
\* `text/plain; ccc=ddd` are unequal.
PLAIN_AAA_BBB ==
    TEXT \o <<B_SLASH>> \o PLAIN \o <<59,32,97,97,97,61,98,98,98>>

PLAIN_CCC_DDD ==
    TEXT \o <<B_SLASH>> \o PLAIN \o <<59,32,99,99,99,61,100,100,100>>

C7_OneParameterEach ==
    pc = "compared" =>
        /\ ( /\ Len(params(a)) = 1 /\ Len(params(b)) = 1
             /\ essence(a) = essence(b)
             /\ eq.ab )
            => SameParam(params(a)[1], params(b)[1])
        /\ (src = PLAIN_AAA_BBB /\ other = PLAIN_CCC_DDD) => ~eq.ab

\* Reached: the two media types of the example, compared and found unequal.
C7_Witness ==
    /\ pc = "compared"
    /\ src = PLAIN_AAA_BBB /\ other = PLAIN_CCC_DDD
    /\ Len(params(a)) = 1 /\ Len(params(b)) = 1 /\ essence(a) = essence(b)
    /\ ~eq.ab

\* ---- C8 ----
\* C8: string equality agrees with parse-then-compare: str_eq(m, s) is true
\* exactly when s parses as a range and mime_eq(m, parse(s)) is true.
C8_StrEqIsParseThenCompare ==
    pc = "compared" => (eq.str <=> (b.ok /\ eq.ab))

\* ---- C9 ----
\* C9: comparing a parsed value with a raw string never fails: for every string
\* that does not parse as a media range the comparison is false, a boolean and
\* not an error.
C9_UnparsableIsUnequal ==
    /\ eq.str \in BOOLEAN
    /\ (pc = "compared" /\ ~b.ok) => ~eq.str

\* Reached: a value with parameters compared with a non-empty string that the
\* range parser rejects.
C9_Witness ==
    /\ pc = "compared"
    /\ has_params(a)
    /\ other # <<>> /\ ~b.ok /\ b.err = "MissingEqual"
    /\ ~eq.str

\* ---- C10 ----
\* C10: in exact (cannot-range) mode parse never succeeds on an input whose
\* type or subtype contains `*`, so no value parsed in that mode has an
\* asterisk in its essence.
C10_ExactRejectsStar ==
    (pc # "input" /\ ~can_range) =>
        /\ HasStar(Slice(src, 0, EssenceEnd(src))) => ~a.ok
        /\ a.ok => ~HasStar(essence(a))

\* Reached: an input with a `*` subtype and parameters, rejected in exact mode.
C10_Witness ==
    /\ pc = "parsed" /\ ~can_range
    /\ HasStar(Slice(src, 0, EssenceEnd(src)))
    /\ Slice(src, 0, EssenceEnd(src)) = AtomSrc[TEXT_STAR]
    /\ EssenceEnd(src) < Len(src)
    /\ ~a.ok /\ a.err = "InvalidToken"

\* ======================= media ranges =======================
\* ---- MediaRange::matches (src/range.rs) ----
\* crate::STAR
STAR ==
    <<B_STAR>>

\* the name of the quality parameter, which matches_params skips
Q_NAME ==
    <<113>>  \* "q"

\* fn matches_params(&self, mt: &MediaType) -> bool
matches_params(r, mt) ==
    \A k \in 1..Len(value_params(r)) :
        \/ value_params(r)[k][1] = Q_NAME
        \/ option_eq_some(param(mt, value_params(r)[k][1]), value_params(r)[k][2])

\* pub fn matches(&self, mt: &MediaType) -> bool
matches(r, mt) ==
    IF type_(r) = STAR THEN matches_params(r, mt)
    ELSE IF type_(r) # type_(mt) THEN FALSE
    ELSE IF subtype(r) = STAR THEN matches_params(r, mt)
    ELSE IF subtype(r) # subtype(mt) THEN FALSE
    ELSE matches_params(r, mt)

\* ---- a range and a media type ----
MaxRangeParams ==
    2
MaxTypeParams ==
    2

RangeEssences ==
    { <<42,47,42>>,                       \* "*/*"
      <<116,101,120,116,47,42>>,          \* "text/*"
      <<116,101,120,116,47,99,115,115>>,  \* "text/css"
      <<97,47,98>> }                      \* "a/b"

RangeFrags ==
    { <<59,32,99,104,97,114,115,101,116,61,117,116,102,45,56>>,  \* "; charset=utf-8"
      <<59,81,61,49>>,                                           \* ";Q=1"
      <<59,120,61,97>>,                                          \* ";x=a"
      <<59,120,61,98>> }                                         \* ";x=b"

RangeInputs ==
    Build(RangeEssences, RangeFrags, MaxRangeParams)

TypeEssences ==
    { <<116,101,120,116,47,99,115,115>>,              \* "text/css"
      <<116,101,120,116,47,112,108,97,105,110>>,      \* "text/plain"
      <<97,47,98>> }                                  \* "a/b"

TypeFrags ==
    { <<59,32,99,104,97,114,115,101,116,61,117,116,102,45,56>>,  \* "; charset=utf-8"
      <<59,67,72,65,82,83,69,84,61,85,84,70,45,56>>,             \* ";CHARSET=UTF-8"
      <<59,120,61,97>>,                                          \* ";x=a"
      <<59,120,61,98>> }                                         \* ";x=b"

TypeInputs ==
    Build(TypeEssences, TypeFrags, MaxTypeParams)

\* MediaType::parse(other)
ParseType ==
    /\ pc = "other"
    /\ b' = parse(FALSE, other)
    /\ pc' = "both"
    /\ UNCHANGED <<can_range, src, fill, a, how, other, eq, st, it, turns>>

\* a.matches(&b), a a MediaRange and b a MediaType
Match ==
    /\ pc = "both"
    /\ b.ok
    /\ eq' = [NotCompared EXCEPT !.matches = matches(a, b)]
    /\ pc' = "compared"
    /\ UNCHANGED <<can_range, src, fill, a, how, other, b, st, it, turns>>

InitMatch ==
    InitWith(RangeInputs, {TRUE})

NextMatch ==
    \/ ParseSrc
    \/ Receive(TypeInputs)
    \/ ParseType
    \/ Match

SpecMatch ==
    InitMatch /\ [][NextMatch]_vars

\* ---- C11 ----
\* A wildcard form: `*/*` or a token type followed by `/*`, then the end of
\* the input or parameters.
WildcardForm(s) ==
    LET e == Slice(s, 0, EssenceEnd(s))
    IN  \/ e = <<B_STAR, B_SLASH, B_STAR>>
        \/ /\ Len(e) >= 3
           /\ e[Len(e)] = B_STAR /\ e[Len(e) - 1] = B_SLASH
           /\ \A k \in 1..(Len(e) - 2) : is_token(e[k])

\* C11: whenever a wildcard form (`*/*` or a `type/*` range, with or without
\* parameters) is given to parse in exact mode, the error is InvalidRange.
C11_WildcardIsInvalidRange ==
    (pc # "input" /\ ~can_range /\ WildcardForm(src)) =>
        (~a.ok /\ a.err = "InvalidRange")

\* ---- C12 ----
\* What the claim says of a range r and a media type mt.
NotQ(r) ==
    {k \in 1..Len(params(r)) : to_ascii_lowercase(params(r)[k][1]) # Q_NAME}

RangeCovers(r, mt) ==
    /\ type_(r) = STAR \/ type_(r) = type_(mt)
    /\ type_(r) = STAR \/ subtype(r) = STAR \/ subtype(r) = subtype(mt)
    /\ \A k \in NotQ(r) : \E j \in 1..Len(params(mt)) :
          SameParam(params(r)[k], params(mt)[j])

\* C12: MediaRange::matches(r, mt) is true exactly when r's type is `*` or
\* mt's type, r's subtype is `*` or mt's subtype (or r's type is `*`), and
\* every parameter of r other than q has a parameter of the same name and an
\* equal value in mt.
C12_MatchesIffCovers ==
    pc = "compared" => (eq.matches <=> RangeCovers(a, b))

\* ---- C13 ----
\* The strings of the atom table, each parsed twice.
AtomIds ==
    1..Len(AtomSrc)

AtomInputs ==
    { AtomSrc[id] : id \in AtomIds }

\* A second, independent parse of the same text.
Again ==
    /\ pc = "parsed"
    /\ a.ok
    /\ other' = src
    /\ how' = "again"
    /\ pc' = "other"
    /\ UNCHANGED <<can_range, src, fill, a, b, eq, st, it, turns>>

InitAtoms ==
    InitWith(AtomInputs, {TRUE})

NextAtoms ==
    \/ ParseSrc
    \/ Again
    \/ ParseOther
    \/ Compare

SpecAtoms ==
    InitAtoms /\ [][NextAtoms]_vars

\* C13: for every entry of the atom table, parsing the entry's exact string in
\* range mode yields a value whose source is that entry's atom (same string,
\* same nonzero identity), so two independent parses of it report the same
\* nonzero atom identity.
C13_TableEntriesIntern ==
    /\ pc # "input" =>
          \A id \in AtomIds : src = AtomSrc[id] =>
              (a.ok /\ a.source = Atom(id) /\ private_atom(a) # 0)
    /\ pc \in {"both", "compared"} =>
          (b.ok /\ private_atom(b) = private_atom(a) /\ private_atom(b) # 0)

\* Reached: the charset=utf-8 entry of text/plain parsed twice, both parses
\* reporting its atom, and the two values compared.
C13_Witness ==
    /\ pc = "compared" /\ how = "again"
    /\ src = AtomSrc[TEXT_PLAIN_UTF_8]
    /\ private_atom(a) = TEXT_PLAIN_UTF_8 /\ private_atom(b) = TEXT_PLAIN_UTF_8
    /\ eq.ab

\* ---- C14: the length limit ----
MaxShortPad == 4
MaxUnder == 1
MaxOver == 1

\* vec![b'a'; n]
Pad(n) ==
    [k \in 1..n |-> 97]

LongTails ==
    { <<47, 98, 43, 99, 59, 120, 61, 121>>,              \* "/b+c;x=y"
      <<47, 98, 59, 32, 99, 104, 97, 114, 115, 101, 116, 61, 117, 116, 102, 45, 56>>,  \* "/b; charset=utf-8"
      <<32, 47, 98>>,                                    \* " /b"
      <<47, 42>> }                                       \* "/*"

LongLens ==
    (U16_MAX - MaxUnder)..(U16_MAX + MaxOver)

\* The inputs are fill bytes b'a' followed by src; they are a few bytes long
\* or within a few bytes of the limit.
InitLong ==
    /\ can_range \in BOOLEAN
    /\ src \in LongTails
    /\ fill \in 1..MaxShortPad \cup { n - Len(src) : n \in LongLens }
    /\ pc = "input"
    /\ a = NotParsed
    /\ how = ""
    /\ other = <<>>
    /\ b = NotParsed
    /\ eq = NotCompared
    /\ st = ScanStart
    /\ it = NotIterating
    /\ turns = 0

\* Parser::parse on the filled input.  The state keeps the Result without the
\* text of the source (the atom and every offset are kept).
ParseFilled ==
    /\ pc = "input"
    /\ a' = [parse(can_range, Pad(fill) \o src) EXCEPT !.source.str = <<>>]
    /\ pc' = "parsed"
    /\ UNCHANGED <<can_range, src, fill, how, other, b, eq, st, it, turns>>

NextLong ==
    ParseFilled

SpecLong ==
    InitLong /\ [][NextLong]_vars

Moved(index, d) ==
    <<index[1] + d, index[2] + d>>

\* The offsets a Mime stores, each moved right by d bytes.
Offsets(m, d) ==
    [slash  |-> m.slash + d,
     plus   |-> [k \in 1..Len(m.plus) |-> m.plus[k] + d],
     kind   |-> m.params.kind,
     params |-> [k \in 1..Len(m.params.pos) |-> m.params.pos[k] + d],
     pairs  |-> [k \in 1..Len(m.params.pairs) |->
                    <<Moved(m.params.pairs[k][1], d), Moved(m.params.pairs[k][2], d)>>]]

\* C14: parse returns TooLong exactly for the inputs longer than 65,535
\* bytes, and an input of exactly 65,535 bytes whose form with a one-byte type
\* is accepted is accepted too, with every stored offset where the short form
\* has it, moved right by the extra length of the type.
C14_TooLongOverLimitOnly ==
    pc # "input" =>
        /\ (~a.ok /\ a.err = "TooLong") <=> fill + Len(src) > U16_MAX
        /\ fill + Len(src) = U16_MAX =>
            LET short == parse(can_range, Pad(1) \o src)
            IN  short.ok =>
                    /\ a.ok
                    /\ Offsets(a, 0) = Offsets(short, fill - 1)
                    /\ a.slash = fill

C14_Witness ==
    /\ pc = "parsed"
    /\ fill + Len(src) = U16_MAX
    /\ a.ok
    /\ a.plus = <<U16_MAX - 6>>
    /\ a.params.kind = "One"
    /\ a.params.pairs[1][2] = <<U16_MAX - 1, U16_MAX>>

\* ---- C15, C16, C17: the suffix marker, subtype() and suffix() ----
MaxSubLen == 4

SubBytes ==
    {98, 66, 43}  \* "b", "B", "+"

Subtypes ==
    UNION { [1..n -> SubBytes] : n \in 1..MaxSubLen }

PlusTails ==
    { <<>>,
      <<59, 120, 61, 43>>,  \* ";x=+"
      <<32, 59, 32, 99, 104, 97, 114, 115, 101, 116, 61, 117, 116, 102, 45, 56>>,  \* " ; charset=utf-8"
      <<59, 88, 61, 89, 43, 122>> }  \* ";X=Y+z"

X_CUSTOM_BAD_SUFFIX ==
    <<97, 112, 112, 108, 105, 99, 97, 116, 105, 111, 110, 47, 120, 45, 99, 117, 115, 116, 111, 109, 43, 98, 97, 100, 43, 115, 117, 102, 102, 105, 120>>  \* "application/x-custom+bad+suffix"

TEXT_HTML_XML ==
    <<116, 101, 120, 116, 47, 104, 116, 109, 108, 43, 120, 109, 108>>  \* "text/html+xml"

PlusInputs ==
    { <<97, 47>> \o sub \o tail : sub \in Subtypes, tail \in PlusTails }
        \cup {X_CUSTOM_BAD_SUFFIX, TEXT_HTML_XML}

InitPlus ==
    InitWith(PlusInputs, BOOLEAN)

NextPlus ==
    ParseSrc

SpecPlus ==
    InitPlus /\ [][NextPlus]_vars

\* The offset of the first byte of s at or after from that is in bytes, or Len(s).
FirstIn(s, from, bytes) ==
    LET hits == { k \in from..(Len(s) - 1) : s[k + 1] \in bytes }
    IN  IF hits = {} THEN Len(s) ELSE CHOOSE k \in hits : \A j \in hits : k <= j

SlashAt(s) ==
    FirstIn(s, 0, {B_SLASH})

\* Where the subtype region of the input ends: at the byte that opens the
\* parameter list, or at the end of the string.
SubtypeEnd(s) ==
    FirstIn(s, SlashAt(s) + 1, {B_SEMI, B_SPACE})

\* The offsets of the `+` bytes of the subtype region.
Pluses(s) ==
    { k \in (SlashAt(s) + 1)..(SubtypeEnd(s) - 1) : s[k + 1] = B_PLUS }

\* The same, without a `+` that is the first byte of the subtype.
InnerPluses(s) ==
    Pluses(s) \ {SlashAt(s) + 1}

Least(S) ==
    CHOOSE k \in S : \A j \in S : k <= j

Greatest(S) ==
    CHOOSE k \in S : \A j \in S : k >= j

\* C15 as stated: with more than one `+` in the subtype region of an accepted
\* input, plus is the offset of the first `+` (a `+` that opens the subtype
\* left aside).
C15_PlusIsFirstAsStated ==
    (pc # "input" /\ a.ok /\ Cardinality(InnerPluses(src)) > 1) =>
        a.plus = <<Least(InnerPluses(src))>>

\* C15: for an accepted input, plus is the offset of the last `+` of the
\* subtype region that is not the first byte of the subtype, and None when
\* there is no such `+`; every other `+` lies in the text before it.
C15_PlusIsLast ==
    (pc # "input" /\ a.ok) =>
        /\ a.plus = IF InnerPluses(src) = {} THEN <<>>
                    ELSE <<Greatest(InnerPluses(src))>>
        /\ \A k \in Pluses(src) : a.plus = <<>> \/ k <= a.plus[1]

C15_Witness ==
    /\ pc = "parsed"
    /\ src = X_CUSTOM_BAD_SUFFIX
    /\ a.ok
    /\ Cardinality(Pluses(src)) = 2
    /\ a.plus = <<24>>

\* The subtype region of the input, lower-cased.
SubtypeText(s) ==
    to_ascii_lowercase(Slice(s, SlashAt(s) + 1, SubtypeEnd(s)))

\* The text of the input after offset k and inside the subtype region, lower-cased.
AfterPlus(s, k) ==
    to_ascii_lowercase(Slice(s, k + 1, SubtypeEnd(s)))

\* C16 as stated: for every accepted input subtype() is the whole text between
\* the `/` and the parameter start, and suffix() is the text after the last
\* `+` of that text.
C16_SuffixAfterLastPlusAsStated ==
    (pc # "input" /\ a.ok) =>
        /\ subtype(a) = SubtypeText(src)
        /\ Pluses(src) # {} => suffix(a) = <<AfterPlus(src, Greatest(Pluses(src)))>>

\* C16: for every accepted input subtype() is the whole text between the `/`
\* and the parameter start (or the end), `+suffix` included, and suffix() is
\* the text after the last `+` of that text that is not its first byte, None
\* when there is no such `+`.
C16_SubtypeWholeSuffixLast ==
    (pc # "input" /\ a.ok) =>
        /\ subtype(a) = SubtypeText(src)
        /\ suffix(a) = IF InnerPluses(src) = {} THEN <<>>
                       ELSE <<AfterPlus(src, Greatest(InnerPluses(src)))>>
        /\ src = X_CUSTOM_BAD_SUFFIX =>
            /\ subtype(a) = <<120, 45, 99, 117, 115, 116, 111, 109, 43, 98, 97, 100, 43, 115, 117, 102, 102, 105, 120>>
            /\ suffix(a) = << <<115, 117, 102, 102, 105, 120>> >>
        /\ src = TEXT_HTML_XML =>
            /\ subtype(a) = <<104, 116, 109, 108, 43, 120, 109, 108>>
            /\ suffix(a) = << <<120, 109, 108>> >>

C16_Witness ==
    /\ pc = "parsed"
    /\ src = <<97, 47>> \o <<66, 43, 98, 43, 59, 88, 61, 89, 43, 122>>
    /\ a.ok
    /\ subtype(a) = <<98, 43, 98, 43>>
    /\ suffix(a) = << <<>> >>

\* C17 as stated: subtype() ends at the suffix marker when one is recorded,
\* otherwise at the parameter start, otherwise at the end of the string.
C17_SubtypeStopsAtPlusAsStated ==
    (pc # "input" /\ a.ok) =>
        subtype(a) = Slice(as_ref(a), a.slash + 1,
                           IF a.plus # <<>> THEN a.plus[1]
                           ELSE IF has_params(a) THEN a.params.pos[1]
                           ELSE Len(as_ref(a)))

\* C17: subtype() starts after the `/` and ends at the parameter start, or at
\* the end of the string when there are no parameters, whether or not a suffix
\* marker is recorded; with a marker recorded, subtype() is the text before
\* the marker, the `+`, and suffix().
C17_SubtypeKeepsSuffix ==
    (pc # "input" /\ a.ok) =>
        /\ type_(a) \o <<B_SLASH>> \o subtype(a)
            = Slice(as_ref(a), 0,
                    IF has_params(a) THEN a.params.pos[1] ELSE Len(as_ref(a)))
        /\ a.plus # <<>> =>
            subtype(a) = Slice(as_ref(a), a.slash + 1, a.plus[1])
                            \o <<B_PLUS>> \o suffix(a)[1]

C17_Witness ==
    /\ pc = "parsed"
    /\ src = TEXT_HTML_XML
    /\ a.ok
    /\ a.plus = <<9>>
    /\ subtype(a) = <<104, 116, 109, 108, 43, 120, 109, 108>>

\* ---- C18: empty parameters ----
MaxTrail == 3
MaxEmptyParams == 2

EmptyEssences ==
    { <<116, 101, 120, 116, 47, 99, 115, 115>>,  \* "text/css"
      <<84, 101, 120, 116, 47, 69, 118, 101, 110, 116, 45, 83, 116, 114, 101, 97, 109>>,  \* "Text/Event-Stream"
      <<97, 47, 98, 43, 99>>,  \* "a/b+c"
      <<116, 101, 120, 116, 47, 42>>,  \* "text/*"
      <<42, 47, 42>> }  \* "*/*"

EmptyFrags ==
    { <<59, 32, 99, 104, 97, 114, 115, 101, 116, 61, 117, 116, 102, 45, 56>>,  \* "; charset=utf-8"
      <<59, 120, 61, 121>>,  \* ";x=y"
      <<32, 59, 120, 61, 34, 121, 34>>,  \* " ;x=\"y\""
      <<32, 120, 61, 121>>,  \* " x=y"
      <<59, 120, 61>> }  \* ";x="

EmptyInputs ==
    Build(EmptyEssences, EmptyFrags, MaxEmptyParams)

\* The strings of `;` and spaces, one to max bytes long.
Trails(max) ==
    UNION { [1..n -> {B_SEMI, B_SPACE}] : n \in 1..max }

\* The caller's second string is the first, an essence, followed only by `;`
\* and spaces (tests::semi_colon_but_empty_params).
Trail ==
    /\ pc = "parsed"
    /\ a.ok
    /\ src \in EmptyEssences
    /\ \E tail \in Trails(MaxTrail) : other' = src \o tail
    /\ how' = "trail"
    /\ pc' = "other"
    /\ UNCHANGED <<can_range, src, fill, a, b, eq, st, it, turns>>

\* The offsets where a parameter of m ends.
ParamEnds(m) ==
    { m.params.pairs[k][2][2] : k \in 1..Len(m.params.pairs) }

\* The caller's second string is the first with one more `;` after one of
\* its parameters.
InsertSemi ==
    /\ pc = "parsed"
    /\ a.ok
    /\ has_params(a)
    /\ \E k \in ParamEnds(a) \cup {Len(src)} :
          other' = Slice(src, 0, k) \o <<B_SEMI>> \o Slice(src, k, Len(src))
    /\ how' = "semi"
    /\ pc' = "other"
    /\ UNCHANGED <<can_range, src, fill, a, b, eq, st, it, turns>>

\* parse(other), and the comparison with the first value when it parsed.
ParseAndCompare ==
    /\ pc = "other"
    /\ b' = parse(can_range, other)
    /\ eq' = IF b'.ok
                THEN [NotCompared EXCEPT !.ab = mime_eq(a, b'), !.ba = mime_eq(b', a)]
                ELSE NotCompared
    /\ pc' = "compared"
    /\ UNCHANGED <<can_range, src, fill, a, how, other, st, it, turns>>

InitEmpty ==
    InitWith(EmptyInputs, BOOLEAN)

NextEmpty ==
    ParseSrc \/ Trail \/ InsertSemi \/ ParseAndCompare

SpecEmpty ==
    InitEmpty /\ [][NextEmpty]_vars

\* C18: an accepted essence followed only by `;` and spaces parses to a value
\* without parameters whose string form is the lower-cased essence and which
\* equals the parse of the essence alone; and an accepted input with one more
\* `;` after one of its parameters is accepted.
C18_EmptyParamsSkipped ==
    pc = "compared" =>
        /\ how = "trail" =>
            /\ b.ok
            /\ ~has_params(b)
            /\ to_string(b) = to_ascii_lowercase(src)
            /\ eq.ab /\ eq.ba
        /\ how = "semi" => b.ok

\* ---- C19: the input grammar ----
MaxGrammarRaw == 4

GrammarBytes ==
    {97, 65, B_SLASH, B_SEMI, B_EQ, B_SPACE, B_PLUS, B_QUOTE, B_BACKSLASH, B_STAR}

GrammarPrefixes ==
    { <<>>,
      <<97, 47, 98>>,  \* "a/b"
      <<97, 47, 98, 59, 120, 61>> }  \* "a/b;x="

GrammarInputs ==
    { p \o r : p \in GrammarPrefixes,
               r \in UNION { [1..n -> GrammarBytes] : n \in 0..MaxGrammarRaw } }

InitGrammar ==
    InitWith(GrammarInputs, BOOLEAN)

NextGrammar ==
    ParseSrc

SpecGrammar ==
    InitGrammar /\ [][NextGrammar]_vars

\* tchar = ALPHA / DIGIT / "!#$%&'*+-.^_`|~"
IsTchar(c) ==
    \/ c >= 48 /\ c <= 57
    \/ IsLetter(c)
    \/ c \in {33, 35, 36, 37, 38, 39, 42, 43, 45, 46, 94, 95, 96, 124, 126}

\* qdtext = HTAB / SP / %x21 / %x23-5B / %x5D-7E / obs-text
IsQdtext(c) ==
    c \in {B_TAB, B_SPACE, 33} \/ (c >= 35 /\ c <= 91) \/ (c >= 93 /\ c <= 126) \/ c >= 128

\* quoted-pair = "\" ( HTAB / SP / VCHAR / obs-text )
IsQuotable(c) ==
    c \in {B_TAB, B_SPACE} \/ (c >= 33 /\ c <= 126) \/ c >= 128

\* One byte of a recogniser of
\*   type "/" subtype *( OWS ";" OWS [ parameter ] ) OWS
\* where type, subtype and parameter names are 1*tchar and a parameter value is
\* 1*tchar or a quoted-string.  "gap" is the place after a subtype or a value
\* where no `;` has been read yet, "semi" the place after a `;`.
Recognise(g, c) ==
    CASE g = "type0" -> IF IsTchar(c) THEN "type" ELSE "no"
      [] g = "type"  -> IF IsTchar(c) THEN "type" ELSE IF c = B_SLASH THEN "sub0" ELSE "no"
      [] g = "sub0"  -> IF IsTchar(c) THEN "sub" ELSE "no"
      [] g \in {"sub", "token"} ->
                        IF IsTchar(c) THEN g
                        ELSE IF c = B_SPACE THEN "gap"
                        ELSE IF c = B_SEMI THEN "semi" ELSE "no"
      [] g = "gap"   -> IF c = B_SPACE THEN "gap" ELSE IF c = B_SEMI THEN "semi" ELSE "no"
      [] g = "semi"  -> IF c \in {B_SPACE, B_SEMI} THEN "semi"
                        ELSE IF IsTchar(c) THEN "name" ELSE "no"
      [] g = "name"  -> IF IsTchar(c) THEN "name" ELSE IF c = B_EQ THEN "value0" ELSE "no"
      [] g = "value0" -> IF IsTchar(c) THEN "token" ELSE IF c = B_QUOTE THEN "quoted" ELSE "no"
      [] g = "quoted" -> IF c = B_QUOTE THEN "gap"
                         ELSE IF c = B_BACKSLASH THEN "pair"
                         ELSE IF IsQdtext(c) THEN "quoted" ELSE "no"
      [] g = "pair"  -> IF IsQuotable(c) THEN "quoted" ELSE "no"
      [] OTHER       -> "no"

RECURSIVE Recognised(_, _, _)
Recognised(s, k, g) ==
    IF k > Len(s) THEN g ELSE Recognised(s, k + 1, Recognise(g, s[k]))

InGrammar(s) ==
    Recognised(s, 1, "type0") \in {"sub", "token", "gap", "semi"}

\* C19: an accepted input is a string of the input grammar (with empty
\* parameters and spaces around `;` allowed), and the type, subtype, suffix,
\* parameter names and parameter values of the result are non-empty.
C19_AcceptedIsInGrammar ==
    (pc # "input" /\ a.ok) =>
        /\ InGrammar(src)
        /\ type_(a) # <<>>
        /\ subtype(a) # <<>>
        /\ suffix(a) # << <<>> >>
        /\ \A k \in 1..Len(params(a)) :
              /\ params(a)[k][1] # <<>>
              /\ params(a)[k][2] # <<>>

\* ---- C20: case of the parsed value ----
\* No byte of s is an ASCII upper-case letter.
AsciiLower(s) ==
    \A k \in 1..Len(s) : ~(s[k] >= 65 /\ s[k] <= 90)

\* C20: an accepted input's type, subtype, suffix and parameter names are in
\* ASCII lower case (so the assertion on names in Value::for_name holds), the
\* value of a parameter named charset is in ASCII lower case, and every other
\* parameter value is the bytes of the input at the same offsets.
C20_LowerCaseExceptValues ==
    (pc # "input" /\ a.ok) =>
        /\ AsciiLower(type_(a))
        /\ AsciiLower(subtype(a))
        /\ \A k \in 1..Len(suffix(a)) : AsciiLower(suffix(a)[k])
        /\ \A k \in 1..Len(value_params(a)) :
              LET name  == value_params(a)[k][1]
                  value == value_params(a)[k][2]
              IN  /\ AsciiLower(name)
                  /\ value.ascii_case_insensitive <=> name = CHARSET
                  /\ name = CHARSET => AsciiLower(value.source)
                  /\ name # CHARSET =>
                        value.source = Slice(src, a.params.pairs[k][2][1],
                                                  a.params.pairs[k][2][2])

C20_Witness ==
    /\ pc = "parsed"
    /\ src = <<84, 69, 88, 84, 47, 99, 115, 115, 59, 67, 72, 65, 82, 83, 69, 84, 61, 85, 84, 70, 45, 56, 59, 32, 120, 61, 65, 59, 121, 61, 34, 92, 65, 34>>  \* "TEXT/css;CHARSET=UTF-8; x=A;y=\"\\A\""
    /\ a.ok
    /\ type_(a) = TEXT
    /\ params(a) = << <<CHARSET, UTF_8>>, << <<120>>, <<65>> >>,
                      << <<121>>, <<B_QUOTE, B_BACKSLASH, 65, B_QUOTE>> >> >>

\* ---- C21: no panic ----
MaxDebugUnits == 4

\* One character each; the last is the two-byte U+00DF.
DebugUnits ==
    { <<97>>, <<B_SLASH>>, <<B_SEMI>>, <<B_EQ>>, <<B_SPACE>>, <<B_QUOTE>>,
      <<B_BACKSLASH>>, <<195, 159>> }

DebugPrefixes ==
    { <<>>,
      <<97, 47, 98, 43, 99, 59, 120, 61>>,  \* "a/b+c;x="
      <<97, 47, 42, 59, 32, 99, 104, 97, 114, 115, 101, 116, 61, 117, 116, 102, 45, 56, 59, 120, 61, 34>> }  \* "a/*; charset=utf-8;x=\""

DebugShort ==
    { p \o Concat(us, 1) :
        p \in DebugPrefixes,
        us \in UNION { [1..n -> DebugUnits] : n \in 0..MaxDebugUnits } }

DebugTails ==
    { <<47, 98, 43, 99, 59, 120, 61, 121>>,  \* "/b+c;x=y"
      <<47, 98, 59, 32, 99, 104, 97, 114, 115, 101, 116, 61, 117, 116, 102, 45, 56, 59, 120, 61, 34, 195, 159, 34>> }  \* "/b; charset=utf-8;x=\"<U+00DF>\""

\* Short inputs of every make, and inputs within a few bytes of the limit.
InitDebug ==
    /\ can_range \in BOOLEAN
    /\ \/ src \in DebugShort /\ fill = 0
       \/ src \in DebugTails /\ fill \in { n - Len(src) : n \in LongLens }
    /\ pc = "input"
    /\ a = NotParsed
    /\ how = ""
    /\ other = <<>>
    /\ b = NotParsed
    /\ eq = NotCompared
    /\ st = ScanStart
    /\ it = NotIterating
    /\ turns = 0

\* Parser::parse on the filled input in a build with debug assertions.  The
\* state keeps the Result without the text of the source.
ParseDebug ==
    /\ pc = "input"
    /\ a' = [parse_debug(can_range, Pad(fill) \o src) EXCEPT !.source.str = <<>>]
    /\ pc' = "parsed"
    /\ UNCHANGED <<can_range, src, fill, how, other, b, eq, st, it, turns>>

NextDebug ==
    ParseDebug

SpecDebug ==
    InitDebug /\ [][NextDebug]_vars

ParseErrors ==
    {"MissingSlash", "MissingEqual", "MissingQuote", "InvalidToken", "InvalidRange", "TooLong"}

\* C21: on every input and in either mode parse ends without a panic: no
\* debug assertion fails, no u16 addition overflows, no slice is out of range
\* or off a character boundary; the result is a value or one of the six errors.
C21_NeverPanics ==
    pc # "input" =>
        /\ a.err # "Panic"
        /\ a.ok \/ a.err \in ParseErrors

C21_Witness ==
    /\ pc = "parsed"
    /\ fill + Len(src) = U16_MAX
    /\ a.ok
    /\ a.params.kind = "Two"
    /\ a.params.pairs[1] = << <<U16_MAX - 20, U16_MAX - 13>>, <<U16_MAX - 12, U16_MAX - 7>> >>
    /\ a.params.pairs[2][2] = <<U16_MAX - 4, U16_MAX>>

\* ---- C22: atom identity against structural comparison ----
\* mimes! (mime-parse/src/constants.rs): slash, plus and the position of the
\* charset=utf-8 parameter of each table row, in the order of the rows.
MimeRows ==
    << <<4, <<>>, <<>> >>,   <<4, <<>>, <<10>> >>, <<4, <<>>, <<>> >>,
       <<4, <<>>, <<9>> >>,  <<4, <<>>, <<>> >>,   <<4, <<>>, <<8>> >>,
       <<4, <<>>, <<>> >>,   <<4, <<>>, <<>> >>,   <<4, <<>>, <<>> >>,
       <<4, <<>>, <<>> >>,   <<4, <<>>, <<8>> >>,  <<4, <<>>, <<>> >>,
       <<4, <<>>, <<25>> >>, <<4, <<>>, <<>> >>,
       <<5, <<>>, <<>> >>,   <<5, <<>>, <<>> >>,   <<5, <<>>, <<>> >>,
       <<5, <<>>, <<>> >>,   <<5, <<9>>, <<>> >>,
       <<4, <<>>, <<>> >>,   <<4, <<>>, <<>> >>,
       <<11, <<>>, <<>> >>,  <<11, <<>>, <<>> >>,  <<11, <<>>, <<22>> >>,
       <<11, <<>>, <<>> >>,  <<11, <<>>, <<>> >>,  <<11, <<>>, <<>> >>,
       <<11, <<>>, <<>> >>,  <<11, <<>>, <<>> >>,
       <<1, <<>>, <<>> >>,   <<4, <<>>, <<>> >>,   <<5, <<>>, <<>> >>,
       <<5, <<>>, <<>> >>,   <<5, <<>>, <<>> >> >>

\* mime_constant!(FULL ...): pub const $id: Mime
mime_constant(id) ==
    Ok(Atom(id), MimeRows[id][1], MimeRows[id][2],
       IF MimeRows[id][3] = <<>> THEN ParamSource_None
       ELSE ParamSource_Utf8(MimeRows[id][3][1]))

\* The rows without a parameter, and what is written after them: nothing, an
\* empty parameter list, and charset=utf-8 in the three layouts that keep the
\* name two bytes after the list start, in either case.
IdentEssences ==
    { AtomSrc[id] : id \in {k \in AtomIds : MimeRows[k][3] = <<>>} }

IdentTails ==
    { <<>>,
      <<59>>,
      <<59, 32, 99, 104, 97, 114, 115, 101, 116, 61, 117, 116, 102, 45, 56>>,
      <<59, 59, 67, 72, 65, 82, 83, 69, 84, 61, 85, 84, 70, 45, 56>>,
      <<32, 59, 67, 104, 97, 114, 115, 101, 116, 61, 85, 116, 102, 45, 56>> }

IdentInputs ==
    { e \o t : e \in IdentEssences, t \in IdentTails }

\* mime::TEXT_PLAIN and the like: the value is the table constant, not a parse.
UseConstant ==
    /\ pc = "input"
    /\ \E id \in AtomIds : src = AtomSrc[id] /\ a' = mime_constant(id)
    /\ pc' = "parsed"
    /\ UNCHANGED <<can_range, src, fill, how, other, b, eq, st, it, turns>>

UseOtherConstant ==
    /\ pc = "other"
    /\ \E id \in AtomIds : other = AtomSrc[id] /\ b' = mime_constant(id)
    /\ pc' = "both"
    /\ UNCHANGED <<can_range, src, fill, a, how, other, eq, st, it, turns>>

InitIdent ==
    InitWith(IdentInputs, {TRUE})

NextIdent ==
    \/ ParseSrc
    \/ UseConstant
    \/ Receive(IdentInputs)
    \/ ParseOther
    \/ UseOtherConstant
    \/ Compare

SpecIdent ==
    InitIdent /\ [][NextIdent]_vars

\* C22: for two values whose atom identities are both nonzero, equality of the
\* identities (the answer of mime_eq) is the answer of the structural
\* comparison, equal essence and equal parameters.
C22_IdentityIsStructure ==
    (pc = "compared" /\ private_atom(a) # 0 /\ private_atom(b) # 0) =>
        /\ eq.ab <=> (private_atom(a) = private_atom(b))
        /\ eq.ab <=> (essence_eq(a, b) /\ params_eq(a, b))
        /\ eq.ba <=> (essence_eq(b, a) /\ params_eq(b, a))

\* Reached: text/css;;CHARSET=UTF-8 against text/css ;Charset=Utf-8, both the
\* atom of "text/css; charset=utf-8", equal; and the same against text/css,
\* another atom, unequal.
C22_Witness ==
    /\ pc = "compared"
    /\ src = TEXT \o <<47>> \o CSS \o <<59, 59, 67, 72, 65, 82, 83, 69, 84, 61, 85, 84, 70, 45, 56>>
    /\ other = TEXT \o <<47>> \o CSS \o <<32, 59, 67, 104, 97, 114, 115, 101, 116, 61, 85, 116, 102, 45, 56>>
    /\ private_atom(a) = TEXT_CSS_UTF_8 /\ private_atom(b) = TEXT_CSS_UTF_8
    /\ eq.ab /\ essence_eq(a, b) /\ params_eq(a, b)

C22_WitnessUnequal ==
    /\ pc = "compared"
    /\ private_atom(a) = TEXT_CSS_UTF_8 /\ private_atom(b) = TEXT_CSS
    /\ ~eq.ab /\ essence_eq(a, b) /\ ~params_eq(a, b)

\* ---- C23: the shape of the parameter list, turn by turn ----
MaxShapeParams == 4

ShapeFrags ==
    { <<59>>,                                                            \* ;
      <<59, 120, 61, 121>>,                                              \* ;x=y
      <<59, 32, 99, 104, 97, 114, 115, 101, 116, 61, 117, 116, 102, 45, 56>>,   \* ; charset=utf-8
      <<59, 67, 72, 65, 82, 83, 69, 84, 61, 85, 84, 70, 45, 56>>,        \* ;CHARSET=UTF-8
      <<32, 59, 67, 104, 97, 114, 115, 101, 116, 61, 85, 116, 102, 45, 56>>,    \* " ;Charset=Utf-8"
      <<59, 32, 99, 104, 97, 114, 115, 101, 116, 61, 34, 117, 116, 102, 45, 56, 34>> }  \* ; charset="utf-8"

ShapeInputs ==
    Build({ <<97, 47, 98>> }, ShapeFrags, MaxShapeParams)
        \cup Build({ AtomSrc[TEXT_CSS] }, ShapeFrags, 1)
        \cup { AtomSrc[STAR_STAR] }

\* parse returns before the scan: the length test and the literal "*/*".
ReturnsEarly(s) ==
    too_long(s) \/ s = AtomSrc[STAR_STAR]

ParseEarly ==
    /\ pc = "input"
    /\ ReturnsEarly(src)
    /\ a' = parse(can_range, src)
    /\ pc' = "parsed"
    /\ UNCHANGED <<can_range, src, fill, how, other, b, eq, st, it, turns>>

\* One turn of the scanning loops: one iteration of the toplevel, sublevel,
\* 'name or 'value loop.
ScanTurn ==
    /\ pc = "input"
    /\ ~ReturnsEarly(src)
    /\ Scanning(st)
    /\ st' = Step(src, can_range, st)
    /\ turns' = turns + 1
    /\ UNCHANGED <<can_range, src, fill, pc, a, how, other, b, eq, it>>

\* The scan has returned: parse builds its result.
ScanReturn ==
    /\ pc = "input"
    /\ ~ReturnsEarly(src)
    /\ ~Scanning(st)
    /\ a' = Returned(src, st)
    /\ pc' = "parsed"
    /\ UNCHANGED <<can_range, src, fill, how, other, b, eq, st, it, turns>>

InitShape ==
    InitWith(ShapeInputs, BOOLEAN)

NextShape ==
    \/ ParseEarly
    \/ ScanTurn
    \/ ScanReturn

SpecShape ==
    InitShape /\ [][NextShape]_vars

\* The single parameter a value yields is charset=utf-8 up to ASCII case.
SingleCharsetUtf8(m) ==
    /\ Len(params(m)) = 1
    /\ eq_ignore_ascii_case(CHARSET, params(m)[1][1])
    /\ eq_ignore_ascii_case(UTF_8, params(m)[1][2])

\* C23 as stated: an accepted input has shape Utf8 exactly when it has a
\* single parameter that is charset=utf-8 up to ASCII case.
C23_Utf8IffSingleCharsetAsStated ==
    (pc = "parsed" /\ a.ok) =>
        (a.params.kind = "Utf8" <=> SingleCharsetUtf8(a))

\* The range of the value a turn pushes: up to the byte read, or through the
\* closing quote.
ValueRead(s) ==
    IF st.phase = "quoted" THEN <<st.start, st.i + 1>> ELSE <<st.start, st.i>>

\* The name just read starts two bytes after the start of the parameter list.
CanonicalLayout ==
    st.params_start + 2 = st.name[1]

Promoted ==
    LET p  == st.params
        q  == st'.params
        nv == <<st.name, ValueRead(src)>>
    IN  CASE p.kind = "None" ->
                IF /\ CanonicalLayout
                   /\ eq_ignore_ascii_case(CHARSET, Slice(src, nv[1][1], nv[1][2]))
                   /\ eq_ignore_ascii_case(UTF_8, Slice(src, nv[2][1], nv[2][2]))
                    THEN q = ParamSource_Utf8(st.params_start)
                    ELSE q = ParamSource_One(st.params_start, nv)
          [] p.kind = "Utf8" ->
                q = ParamSource_Two(p.pos[1],
                        << <<p.pos[1] + 2, p.pos[1] + 9>>, <<p.pos[1] + 10, p.pos[1] + 15>> >>, nv)
          [] p.kind = "One" -> q = ParamSource_Two(p.pos[1], p.pairs[1], nv)
          [] p.kind = "Two" -> q = ParamSource_Custom(p.pos[1], Append(p.pairs, nv))
          [] OTHER -> q = ParamSource_Custom(p.pos[1], Append(p.pairs, nv))

\* In the value's source the single parameter's name starts two bytes after
\* the start of the parameter list, behind a `;` or a space.
NameAtTwo(m) ==
    LET p == m.params.pos[1]
        s == as_ref(m)
    IN  /\ Len(s) >= p + 9
        /\ s[p + 2] \in {B_SEMI, B_SPACE}
        /\ eq_ignore_ascii_case(CHARSET, Slice(s, p + 2, p + 9))

\* C23: the first parsed parameter sets the shape to Utf8 if its name is
\* case-insensitively charset, its value case-insensitively utf-8 and the name
\* starts two bytes after the start of the parameter list, otherwise to One;
\* a second parameter gives Two, a third Custom, later ones are appended.  An
\* accepted input has shape Utf8 exactly when its parameter list holds one
\* parameter, charset=utf-8 up to ASCII case, in that layout.
C23_ShapePromotion ==
    /\ [][(st'.params # st.params) => Promoted]_vars
    /\ []((pc = "parsed" /\ a.ok) =>
            (a.params.kind = "Utf8" <=> (SingleCharsetUtf8(a) /\ NameAtTwo(a))))

\* Reached: a/b;CHARSET=UTF-8 is accepted with the one parameter charset=utf-8
\* in shape One, its name starting one byte after the list start; and
\* a/b ;Charset=Utf-8 in shape Utf8.
C23_Witness ==
    /\ pc = "parsed" /\ a.ok
    /\ src = <<97, 47, 98, 59, 67, 72, 65, 82, 83, 69, 84, 61, 85, 84, 70, 45, 56>>
    /\ a.params = ParamSource_One(3, << <<4, 11>>, <<12, 17>> >>)
    /\ SingleCharsetUtf8(a)

C23_WitnessUtf8 ==
    /\ pc = "parsed" /\ a.ok
    /\ src = <<97, 47, 98, 32, 59, 67, 104, 97, 114, 115, 101, 116, 61, 85, 116, 102, 45, 56>>
    /\ a.params = ParamSource_Utf8(3)

C23_WitnessCustom ==
    /\ pc = "input" /\ st.phase = "done"
    /\ st.params.kind = "Custom" /\ Len(st.params.pairs) = 4
    /\ st.params.pairs[1] = << <<5, 12>>, <<13, 18>> >>

\* ---- C24: the stored start of the parameter list ----
\* C24: for every parsed value whose shape is not None the stored position is
\* the index of a `;` of the value's source, the first one; for shape None no
\* position is stored.
C24_PosIsFirstSemicolon ==
    (pc = "parsed" /\ a.ok) =>
        IF a.params.kind = "None" THEN a.params.pos = <<>>
        ELSE /\ a.params.pos # <<>>
             /\ a.params.pos[1] < Len(as_ref(a))
             /\ as_ref(a)[a.params.pos[1] + 1] = B_SEMI
             /\ \A k \in 1..a.params.pos[1] : as_ref(a)[k] # B_SEMI

\* What the code keeps instead: the stored position is the index of the byte
\* that ends the subtype, a `;` or a space, and no `;` or space precedes it.
PosIsListStart ==
    (pc = "parsed" /\ a.ok) =>
        IF a.params.kind = "None" THEN a.params.pos = <<>>
        ELSE /\ a.params.pos # <<>>
             /\ a.params.pos[1] < Len(as_ref(a))
             /\ as_ref(a)[a.params.pos[1] + 1] \in {B_SEMI, B_SPACE}
             /\ \A k \in 1..a.params.pos[1] : as_ref(a)[k] \notin {B_SEMI, B_SPACE}
             /\ essence(a) = to_ascii_lowercase(Slice(src, 0, a.params.pos[1]))

\* Reached: "a/b ;Charset=Utf-8;x=y" is accepted with the position of the
\* space stored, the `;` being one byte further.
SpaceStored ==
    /\ pc = "parsed" /\ a.ok
    /\ src = <<97, 47, 98, 32, 59, 67, 104, 97, 114, 115, 101, 116, 61, 85, 116, 102, 45, 56, 59, 120, 61, 121>>
    /\ a.params.kind = "Two" /\ a.params.pos = <<3>>
    /\ as_ref(a)[4] = B_SPACE /\ as_ref(a)[5] = B_SEMI

\* ---- C25: the pair rebuilt when a parameter follows the Utf8 shape ----
\* The scan of s held the shape Utf8 at some turn.
RECURSIVE HoldsUtf8(_, _, _)
HoldsUtf8(s, mode, from) ==
    IF from.params.kind = "Utf8" THEN TRUE
    ELSE IF ~Scanning(from) THEN FALSE
    ELSE HoldsUtf8(s, mode, Step(s, mode, from))

WasUtf8(s, mode) ==
    HoldsUtf8(s, mode, ScanStart)

\* The ranges of the stored pairs run left to right without overlap.
InInputOrder(ps) ==
    \A k \in 1..Len(ps) :
        /\ ps[k][1][1] < ps[k][1][2] /\ ps[k][1][2] < ps[k][2][1] /\ ps[k][2][1] <= ps[k][2][2]
        /\ k > 1 => ps[k - 1][2][2] < ps[k][1][1]

\* C25: when a further parameter follows a leading charset=utf-8 held in the
\* Utf8 shape, the rebuilt first pair has the ranges pos+2..pos+9 and
\* pos+10..pos+15, which select the bytes charset and utf-8 of the stored
\* source; params() yields ("charset", "utf-8") first and then the remaining
\* parameters in input order, each with the text the input has at its range.
C25_RebuiltPairSelectsCharset ==
    (pc = "parsed" /\ a.ok /\ WasUtf8(src, can_range) /\ a.params.kind # "Utf8") =>
        LET pos == a.params.pos[1]
            ps  == a.params.pairs
        IN  /\ a.params.kind \in {"Two", "Custom"}
            /\ ps[1] = << <<pos + 2, pos + 9>>, <<pos + 10, pos + 15>> >>
            /\ Slice(as_ref(a), pos + 2, pos + 9) = CHARSET
            /\ Slice(as_ref(a), pos + 10, pos + 15) = UTF_8
            /\ params(a)[1] = <<CHARSET, UTF_8>>
            /\ InInputOrder(ps)
            /\ Len(params(a)) = Cardinality({k \in 1..Len(src) : src[k] = B_EQ})
            /\ \A k \in 2..Len(ps) :
                  /\ params(a)[k][1] = to_ascii_lowercase(Slice(src, ps[k][1][1], ps[k][1][2]))
                  /\ IF params(a)[k][1] = CHARSET
                        THEN params(a)[k][2] = to_ascii_lowercase(Slice(src, ps[k][2][1], ps[k][2][2]))
                        ELSE params(a)[k][2] = Slice(src, ps[k][2][1], ps[k][2][2])

\* Reached: "a/b ;Charset=Utf-8;x=y" yields (charset, utf-8) and then (x, y).
C25_Witness ==
    /\ pc = "parsed" /\ a.ok
    /\ src = <<97, 47, 98, 32, 59, 67, 104, 97, 114, 115, 101, 116, 61, 85, 116, 102, 45, 56, 59, 120, 61, 121>>
    /\ WasUtf8(src, can_range)
    /\ a.params.kind = "Two" /\ a.params.pos = <<3>>
    /\ params(a) = << <<CHARSET, UTF_8>>, << <<120>>, <<121>> >> >>

\* ---- C26: the Params iterator (mime-parse/src/lib.rs) ----
\* How many times next() is called after it first returned None.
MaxExtraNext == 2

\* Mime::params(): Inline::Done, One and Two are Inlined with 0, 1 and 2 pairs
\* left; the slice iterator of Custom is the pairs it has left.
Params(m) ==
    CASE m.params.kind = "Utf8" -> [kind |-> "Utf8", pairs |-> <<>>]
      [] m.params.kind = "One" -> [kind |-> "Inlined", pairs |-> <<m.params.pairs[1]>>]
      [] m.params.kind = "Two" ->
            [kind |-> "Inlined", pairs |-> <<m.params.pairs[1], m.params.pairs[2]>>]
      [] m.params.kind = "Custom" -> [kind |-> "Custom", pairs |-> m.params.pairs]
      [] OTHER -> ParamsInner_None

\* (name, value) of an indexed pair: &source.as_ref()[range(name)], ...
Sliced(source, pair) ==
    << Slice(source.str, pair[1][1], pair[1][2]), Slice(source.str, pair[2][1], pair[2][2]) >>

\* Variant: Inline::Two keeps its first pair for the next call.
Params_next_keeps_first(source, inner) ==
    CASE inner.kind = "Utf8" ->
            [item |-> << <<CHARSET, UTF_8>> >>, inner |-> ParamsInner_None]
      [] inner.kind = "Inlined" ->
            IF Len(inner.pairs) = 0 THEN [item |-> <<>>, inner |-> inner]
            ELSE IF Len(inner.pairs) = 1 THEN
                [item |-> << Sliced(source, inner.pairs[1]) >>,
                 inner |-> [inner EXCEPT !.pairs = <<>>]]
            ELSE
                [item |-> << Sliced(source, inner.pairs[1]) >>,
                 inner |-> [inner EXCEPT !.pairs = <<inner.pairs[1]>>]]
      [] inner.kind = "Custom" ->
            IF Len(inner.pairs) = 0 THEN [item |-> <<>>, inner |-> inner]
            ELSE [item |-> << Sliced(source, Head(inner.pairs)) >>,
                  inner |-> [inner EXCEPT !.pairs = Tail(inner.pairs)]]
      [] OTHER -> [item |-> <<>>, inner |-> inner]

\* Iterator::next: the item returned (Option) and the iterator afterwards.
Params_next(source, inner) ==
    CASE inner.kind = "Utf8" ->
            [item |-> << <<CHARSET, UTF_8>> >>, inner |-> ParamsInner_None]
      [] inner.kind = "Inlined" ->
            IF Len(inner.pairs) = 0 THEN [item |-> <<>>, inner |-> inner]
            ELSE IF Len(inner.pairs) = 1 THEN
                [item |-> << Sliced(source, inner.pairs[1]) >>,
                 inner |-> [inner EXCEPT !.pairs = <<>>]]
            ELSE
                [item |-> << Sliced(source, inner.pairs[1]) >>,
                 inner |-> [inner EXCEPT !.pairs = <<inner.pairs[2]>>]]
      [] inner.kind = "Custom" ->
            IF Len(inner.pairs) = 0 THEN [item |-> <<>>, inner |-> inner]
            ELSE [item |-> << Sliced(source, Head(inner.pairs)) >>,
                  inner |-> [inner EXCEPT !.pairs = Tail(inner.pairs)]]
      [] OTHER -> [item |-> <<>>, inner |-> inner]

\* Iterator::size_hint: (lower, Some(upper)) as <<lower, <<upper>> >>.
Params_size_hint(inner) ==
    CASE inner.kind = "Utf8" -> <<1, <<1>> >>
      [] inner.kind = "Inlined" /\ Len(inner.pairs) = 0 -> <<0, <<0>> >>
      [] inner.kind = "Inlined" /\ Len(inner.pairs) = 1 -> <<1, <<1>> >>
      [] inner.kind = "Inlined" /\ Len(inner.pairs) = 2 -> <<2, <<2>> >>
      [] inner.kind = "Custom" -> <<Len(inner.pairs), <<Len(inner.pairs)>> >>
      [] OTHER -> <<0, <<0>> >>

\* let mut params = mime.params();
MakeParams ==
    /\ pc = "parsed"
    /\ a.ok
    /\ it' = [inner |-> Params(a), yielded |-> <<>>, nones |-> 0]
    /\ pc' = "iterating"
    /\ UNCHANGED <<can_range, src, fill, a, how, other, b, eq, st, turns>>

\* params.next()
NextParam ==
    /\ pc = "iterating"
    /\ it.nones < MaxExtraNext
    /\ LET r == Params_next(a.source, it.inner)
       IN  it' = [inner   |-> r.inner,
                  yielded |-> IF r.item = <<>> THEN it.yielded ELSE Append(it.yielded, r.item[1]),
                  nones   |-> IF r.item = <<>> THEN it.nones + 1 ELSE it.nones]
    /\ UNCHANGED <<can_range, src, fill, pc, a, how, other, b, eq, st, turns>>

InitIter ==
    InitWith(ShapeInputs, BOOLEAN)

NextIter ==
    \/ ParseSrc
    \/ MakeParams
    \/ NextParam

SpecIter ==
    InitIter /\ [][NextIter]_vars

\* The number of pairs of a value, by its shape.
PairCount(m) ==
    CASE m.params.kind = "None" -> 0
      [] m.params.kind \in {"Utf8", "One"} -> 1
      [] m.params.kind = "Two" -> 2
      [] OTHER -> Len(m.params.pairs)

\* C26: at every point while iterating params(), size_hint() is (n, Some(n))
\* with n the number of pairs still to be yielded: initially 0 for None, 1 for
\* Utf8 and One, 2 for Two, the vector length for Custom, one less after each
\* yielded pair; once next() has returned nothing, nothing is left, and the
\* pairs yielded are the value's parameters in order.
C26_SizeHintIsExact ==
    pc = "iterating" =>
        LET left == PairCount(a) - Len(it.yielded)
        IN  /\ left >= 0
            /\ Params_size_hint(it.inner) = <<left, <<left>> >>
            /\ Len(it.yielded) = 0 => Params_size_hint(it.inner) = size_hint(a)
            /\ it.nones > 0 => left = 0
            /\ it.yielded = SubSeq(params(a), 1, Len(it.yielded))

\* Reached: a value of four parameters, the first rebuilt from the Utf8 shape,
\* fully iterated and next() called twice more.
C26_Witness ==
    /\ pc = "iterating"
    /\ a.params.kind = "Custom" /\ Len(a.params.pairs) = 4
    /\ Len(it.yielded) = 4 /\ it.yielded[1] = <<CHARSET, UTF_8>>
    /\ it.nones = MaxExtraNext
    /\ Params_size_hint(it.inner) = <<0, <<0>> >>

\* ---- C27: the scan, one loop iteration at a time ----
MaxTurnUnits == 3

TurnUnits ==
    { <<97>>, <<47>>, <<59>>, <<61>>, <<32>>, <<34>>, <<92>>, <<42>>, <<43>> }

TurnPrefixes ==
    { <<>>,
      <<97, 47, 42>>,                                   \* a/*
      <<97, 47, 98, 59, 120, 61>>,                      \* a/b;x=
      <<97, 47, 42, 59, 120, 61, 34>> }                 \* a/*;x="

TurnInputs ==
    { p \o Concat(u, 1) : p \in TurnPrefixes,
          u \in UNION { [1..n -> TurnUnits] : n \in 0..MaxTurnUnits } }
        \cup { AtomSrc[STAR_STAR] }

InitTurns ==
    InitWith(TurnInputs, BOOLEAN)

NextTurns ==
    \/ ParseEarly
    \/ ScanTurn
    \/ ScanReturn

SpecTurns ==
    InitTurns /\ [][NextTurns]_vars

\* The loops run on without being held up.
SpecTurnsFair ==
    SpecTurns /\ WF_vars(NextTurns)

\* A name or a value begins with this turn.
NameBegins ==
    st'.phase = "name" /\ (st.phase # "name" \/ st'.start # st.start)

ValueBegins ==
    st.phase = "name" /\ st'.phase = "value"

\* How many bytes the turn takes from the iterator.
Took ==
    st'.i - st.i

\* The iterator has no byte left: the turn's iter.next() is None.
AtEnd ==
    st.i >= Len(src)

\* The turn is the sublevel iteration whose arm is the range `*`.
StarArm ==
    /\ st.phase = "sub" /\ st.i < Len(src)
    /\ src[st.i + 1] = B_STAR /\ st.i = st.start /\ can_range

\* C27 as stated: every loop iteration takes exactly one byte, start is the
\* position of the next unread byte when a name or value begins, and parse
\* ends within len(s) iterations.
C27_SinglePassAsStated ==
    /\ [][(turns' # turns) =>
            /\ Took = 1
            /\ (NameBegins \/ ValueBegins) => st'.start = st'.i]_vars
    /\ [](turns <= Len(src))

\* C27: the scanner is single-pass.  Every iteration of the toplevel,
\* sublevel, 'name and 'value loops takes exactly one byte from the one
\* forward iterator, but for two cases: the iteration that finds the end of
\* the input takes none and is the last; the sublevel iteration on a range `*`
\* also takes the byte after it, or finds the end and returns.  The iterator
\* never moves back or past the end.  When a name or a value begins, start is
\* the position of the next unread byte.  parse terminates within len(s) + 1
\* iterations, all but the last one taking a byte, with the result of the scan
\* run as a whole.
C27_SinglePass ==
    /\ [][(turns' # turns) =>
            /\ turns' = turns + 1
            /\ IF AtEnd THEN Took = 0 /\ ~Scanning(st')
               ELSE IF StarArm THEN
                    \/ Took = 2
                    \/ Took = 1 /\ st'.i = Len(src) /\ ~Scanning(st')
               ELSE Took = 1
            /\ st'.i <= Len(src)
            /\ (NameBegins \/ ValueBegins) => st'.start = st'.i]_vars
    /\ [](turns <= st.i + 1 /\ turns <= Len(src) + 1)
    /\ [][(pc' = "parsed") => a' = parse(can_range, src)]_vars
    /\ <>(pc = "parsed")

\* Reached: a/*;x="\"" scanned to its end in range mode, ten bytes in nine
\* iterations: the star arm takes `*` and `;` in one, and the scan goes on
\* through a quoted value and a quoted pair.
C27_Witness ==
    /\ pc = "parsed" /\ a.ok /\ can_range
    /\ src = <<97, 47, 42, 59, 120, 61, 34, 92, 34, 34>>
    /\ st.i = Len(src) /\ st.phase = "done" /\ turns = 9
    /\ a.params = ParamSource_One(3, << <<4, 5>>, <<6, 10>> >>)

\* Reached: a/a is accepted after four iterations, the last one finding the
\* end of the input and taking no byte.
C27_WitnessEndOfInput ==
    /\ pc = "parsed" /\ a.ok
    /\ src = <<97, 47, 97>>
    /\ st.i = Len(src) /\ st.phase = "eof" /\ turns = Len(src) + 1

\* Reached: a/*a is refused in range mode after three iterations that took
\* four bytes, the star arm taking the byte it refuses.
C27_WitnessStarRefused ==
    /\ pc = "parsed" /\ ~a.ok /\ can_range
    /\ src = <<97, 47, 42, 97>>
    /\ a = Err("InvalidToken", 3, 97)
    /\ st.i = Len(src) /\ turns = 3

\* ---- C28 ----
\* C28: cmp::mime_eq is symmetric: for all successfully parsed values a and b,
\* mime_eq(a, b) equals mime_eq(b, a).
C28_MimeEqSymmetric ==
    (pc = "compared" /\ a.ok /\ b.ok) => (eq.ab <=> eq.ba)

\* ---- C29: impl PartialEq for Mime (mime-parse/src/lib.rs) ----
\* Mime::eq_type_subtype
eq_type_subtype(self, o) ==
    Slice(as_ref(self), 0, semicolon_or_end(self)) = Slice(as_ref(o), 0, semicolon_or_end(o))

\* Params::fast_eq
fast_eq(self, o) ==
    IF (self.kind = "None" /\ o.kind = "None") \/ (self.kind = "Utf8" /\ o.kind = "Utf8")
        THEN "Equals"
    ELSE IF self.kind = "None" \/ o.kind = "None" THEN "NotEquals"
    ELSE "Undetermined"

\* params().collect::<HashMap<_, _>>(): each name with the value of its last
\* occurrence, as a set of <<name, value>>.
collect(ps) ==
    { ps[k] : k \in { j \in 1..Len(ps) : \A l \in (j + 1)..Len(ps) : ps[l][1] # ps[j][1] } }

\* Mime::eq_of_params.  Both maps are collected from self.params().
eq_of_params(self, o) ==
    LET res == fast_eq(Params(self), Params(o))
    IN  IF res = "Equals" THEN TRUE
        ELSE IF res = "NotEquals" THEN FALSE
        ELSE LET my_params    == collect(params(self))
                 other_params == collect(params(self))
             IN  my_params = other_params

\* impl PartialEq for Mime: eq
Mime_eq(self, o) ==
    IF self.source.atom = 0 \/ o.source.atom = 0
        THEN eq_type_subtype(self, o) /\ eq_of_params(self, o)
        ELSE self.source.atom = o.source.atom

\* a == b and b == a on the two mime_parse::Mime values.
CompareParsed ==
    /\ pc = "both"
    /\ b.ok
    /\ eq' = [ab |-> Mime_eq(a, b), ba |-> Mime_eq(b, a), str |-> FALSE, matches |-> FALSE]
    /\ pc' = "compared"
    /\ UNCHANGED <<can_range, src, fill, a, how, other, b, st, it, turns>>

InitParsedEq ==
    InitWith(CmpInputs, {FALSE})

NextParsedEq ==
    \/ ParseSrc
    \/ Receive(CmpInputs)
    \/ ParseOther
    \/ CompareParsed

SpecParsedEq ==
    InitParsedEq /\ [][NextParsedEq]_vars

\* C29: for two values with the same essence, at least one of them not an
\* atom, mime_parse's == is true only if both have the same parameter
\* name-to-value map, and false when the other value's parameters differ.
C29_EqOnlyIfSameParams ==
    (/\ pc = "compared"
     /\ essence(a) = essence(b)
     /\ (private_atom(a) = 0 \/ private_atom(b) = 0)) =>
        (eq.ab => collect(params(a)) = collect(params(b)))

\* ---- C30: a range whose type is `*` ----
MaxStarUnits == 4

StarUnits ==
    { <<42>>, <<47>>, <<97>>, <<59>>, <<43>> }          \* * / a ; +

StarPrefixes ==
    { <<>>, <<42, 47>>, <<42, 47, 42>> }                \* "", "*/", "*/*"

StarInputs ==
    { p \o Concat(u, 1) : p \in StarPrefixes,
          u \in UNION { [1..n -> StarUnits] : n \in 0..MaxStarUnits } }
        \cup AtomInputs

StarTypes ==
    { <<97, 47, 98>>, AtomSrc[TEXT_PLAIN] }

\* debug_assert_eq!(self.subtype(), crate::STAR), reached when the type is `*`
matches_asserted(r) ==
    type_(r) = STAR => subtype(r) = STAR

\* a.matches(&b) in a build with debug assertions; a is a MediaRange parsed
\* as one, a table constant, or MediaRange::from of a parsed MediaType.
MatchDebug ==
    /\ pc = "both"
    /\ b.ok
    /\ IF matches_asserted(a)
          THEN eq' = [NotCompared EXCEPT !.matches = matches(a, b)] /\ how' = "matched"
          ELSE eq' = NotCompared /\ how' = "panic"
    /\ pc' = "compared"
    /\ UNCHANGED <<can_range, src, fill, a, other, b, st, it, turns>>

InitStar ==
    InitWith(StarInputs, BOOLEAN)

NextStar ==
    \/ ParseSrc
    \/ UseConstant
    \/ Receive(StarTypes)
    \/ ParseType
    \/ MatchDebug

SpecStar ==
    InitStar /\ [][NextStar]_vars

\* C30: every MediaRange obtained by range-mode parsing, from a table
\* constant, or by conversion from a MediaType, whose type is `*`, has the
\* subtype `*`; the assertion at the start of MediaRange::matches never fails.
C30_StarTypeHasStarSubtype ==
    /\ (pc # "input" /\ a.ok) =>
          /\ type_(a) = STAR => (subtype(a) = STAR /\ as_ref(a) = AtomSrc[STAR_STAR])
          /\ type_(a)[1] = B_STAR => type_(a) = STAR
    /\ how # "panic"

\* Reached: the range */* matched against a/b, the assertion passed.
C30_Witness ==
    /\ pc = "compared" /\ how = "matched"
    /\ src = AtomSrc[STAR_STAR]
    /\ type_(a) = STAR /\ subtype(a) = STAR
    /\ eq.matches
====
